---- MODULE Spec2Model ----
(***************************************************************************)
(* Verification model of the TCAPY trading-signal bot (src/bot.js), with   *)
(* the scheduler of src/unnamed/part_000 and the signal cycle of the       *)
(* earlier revision src/unnamed/part_002 where they differ from it.        *)
(*                                                                         *)
(* Units.  JavaScript numbers are modelled by integers in fixed units:     *)
(*   - times are epoch milliseconds (Now stands for Date.now());           *)
(*   - in the calculateVolume / getPriceAtTime specifications a price is   *)
(*     a number of cents and a quantity a number of tokens, so that a      *)
(*     value (price * qty) is a number of cents.                           *)
(* A field of a trade that the feed delivers damaged is described by the   *)
(* trade's "defect": "none", "null" (the entry itself is null), "noTime",  *)
(* "noPrice", "noQty" (field absent: falsy), "nanTime", "nanPrice",        *)
(* "nanQty" (field present but parseInt / parseFloat yields NaN).          *)
(***************************************************************************)
EXTENDS Integers, Sequences, FiniteSets, TLC

VARIABLES
    pc,          \* position of the modelled call: "feed", then "<op>_done"
    trades,      \* the trade list handed to the analysis functions
    startTime,   \* calculateVolume: the startTime argument
    volume,      \* calculateVolume: the returned totals
    targetTime,  \* getPriceAtTime: the targetTime argument
    priceAt,     \* getPriceAtTime: the returned price (NoPrice for null)
    orderBook,   \* generateBuyZones: [present, bids], bids as <<price, amount>> pairs
    currentPrice,\* generateBuyZones: the currentPrice argument
    volume24h,   \* generateBuyZones: the volume24h argument
    zones,       \* generateBuyZones: the returned zones
    signal,      \* sendTcapySignal: outcome and intermediate values of a cycle
    percentChange, \* the percent change handed to the two classifiers
    buyRatio,    \* calculateBuyRatio: the returned ratio, in tenths
    message,     \* generateSignalMessage: the returned text, [tier, annotation]
    failed,      \* the feeds whose fetch failed in the cycle
    chat,        \* the messages the cycle left in the chat, oldest first
    errorCount,  \* signalCache.errorCount
    trigger,     \* what started the cycle: "command" (ctx given) or "scheduled"
    lastUpdateTime, \* signalCache.lastUpdateTime
    throttled,   \* throttle: the closure of a throttled function and its callers
    retry,       \* withRetry: the loop state of one call
    sched        \* scheduleAutomaticSignal: signalCache and the timers around it

callVars == <<startTime, volume, targetTime, priceAt>>
zoneVars == <<orderBook, currentPrice, volume24h, zones>>
classVars == <<percentChange, buyRatio, message>>
cycleVars == <<failed, chat, errorCount, trigger, lastUpdateTime>>
asyncVars == <<throttled, retry, sched>>
vars == <<pc, trades, callVars, zoneVars, signal, classVars, cycleVars, asyncVars>>

(***************************************************************************)
(* Bounds of the model                                                     *)
(***************************************************************************)
MaxTrades == 3          \* longest trade list explored
MaxBids == 3            \* longest list of order-book bids explored
MaxZoneTrades == 5      \* longest trade list handed to generateBuyZones
Now == 20000000         \* the value Date.now() returns during the call

NoPrice == -1           \* getPriceAtTime's null
NaNPrice == -2          \* parseFloat of an unparseable price: NaN
NullBook == [present |-> FALSE, bids |-> <<>>]  \* orderBook is null

(***************************************************************************)
(* Trades                                                                  *)
(***************************************************************************)
Trade(t, p, q, m, d) ==
    [time |-> t, price |-> p, qty |-> q, isBuyerMaker |-> m, defect |-> d]

Defects == {"null", "noTime", "noPrice", "noQty", "nanTime", "nanPrice", "nanQty"}

\* parseInt(trade.time, 10) is NaN
TimeIsNaN(trade) == trade.defect \in {"null", "noTime", "nanTime"}
\* parseFloat(trade.price) is NaN
PriceIsNaN(trade) == trade.defect \in {"null", "noPrice", "nanPrice"}
\* parseFloat(trade.qty) is NaN
QtyIsNaN(trade) == trade.defect \in {"null", "noQty", "nanQty"}

(***************************************************************************)
(* calculateVolume (src/bot.js 285-328)                                    *)
(***************************************************************************)
ZeroVolume ==
    [totalSellValue |-> 0, totalSellAmount |-> 0,
     totalBuyValue |-> 0, totalBuyAmount |-> 0]

\* a percent change 100 * num / den, kept as a fraction (den = 0: NaN)
Change(n, d) == [num |-> n, den |-> d]

\* generateSignalMessage has not run
NoMessage == [tier |-> "", annotation |-> ""]

\* the signal cycle has not run
NoSignal ==
    [status |-> "idle",
     changes |-> <<Change(0, 1), Change(0, 1), Change(0, 1), Change(0, 1)>>,
     actual |-> <<ZeroVolume, ZeroVolume, ZeroVolume, ZeroVolume>>,
     source |-> <<"actual", "actual", "actual", "actual">>,
     estimated |-> <<ZeroVolume, ZeroVolume, ZeroVolume>>,
     data |-> <<ZeroVolume, ZeroVolume, ZeroVolume, ZeroVolume>>,
     primary |-> 1]

\* throttle: no timer is pending
NoTimer == [due |-> -1, call |-> 0]

\* the closure of throttle before the first call (lines 123-124), at time 0
NoThrottle ==
    [now |-> 0, lastCall |-> 0, timeout |-> NoTimer, calls |-> <<>>, invoked |-> <<>>]

\* withRetry has not been called
NoRetry ==
    [retries |-> 0, delay |-> 0, i |-> 0, state |-> "idle",
     attempts |-> <<>>, waits |-> <<>>, result |-> "none"]

\* part_000 lines 1142-1146 and 1158: signalCache and signalTimer at start-up
NoSchedule ==
    [isUpdating |-> FALSE, lastUpdateTime |-> 0, errorCount |-> 0,
     signalTimer |-> FALSE, initial |-> "none", nextTimer |-> -1, epoch |-> 0,
     cycles |-> <<>>, lastCheck |-> "none", commands |-> 0]

\* the early returns of the forEach callback (lines 302, 305, 309)
VolumeSkips(trade, start) ==
    \/ trade.defect \in {"null", "noTime", "noPrice", "noQty"}
    \/ TimeIsNaN(trade)
    \/ trade.time < start
    \/ PriceIsNaN(trade)
    \/ QtyIsNaN(trade)

\* a plausible slip: the value is added to both sides
VolumeAccumulateBothSides(acc, trade) ==
    LET value == trade.price * trade.qty
    IN  [totalSellValue  |-> acc.totalSellValue + value,
         totalSellAmount |-> acc.totalSellAmount + trade.qty,
         totalBuyValue   |-> acc.totalBuyValue + value,
         totalBuyAmount  |-> acc.totalBuyAmount + trade.qty]

\* lines 311-319: the accumulation of one included trade
VolumeAccumulate(acc, trade) ==
    LET value == trade.price * trade.qty
    IN  IF trade.isBuyerMaker
        THEN [acc EXCEPT !.totalSellValue = @ + value,
                         !.totalSellAmount = @ + trade.qty]
        ELSE [acc EXCEPT !.totalBuyValue = @ + value,
                         !.totalBuyAmount = @ + trade.qty]

RECURSIVE VolumeFold(_, _, _, _)
VolumeFold(list, start, i, acc) ==
    IF i > Len(list) THEN acc
    ELSE VolumeFold(list, start, i + 1,
                    IF VolumeSkips(list[i], start) THEN acc
                    ELSE VolumeAccumulate(acc, list[i]))

calculateVolume(list, start) ==
    IF Len(list) = 0 THEN ZeroVolume
    ELSE VolumeFold(list, start, 1, ZeroVolume)

(***************************************************************************)
(* Specification SpecVolume: a trade list arrives from the feed and        *)
(* calculateVolume is applied to it.                                       *)
(***************************************************************************)
VolumeTimes == {Now - 3000, Now - 1000, Now, Now + 1000}
VolumeStarts == {Now - 5000, Now - 1000, Now + 500}

VolumeTradeSet ==
    {Trade(t, 1000, 5, FALSE, "none") : t \in VolumeTimes}
    \cup {Trade(t, 950, 3, TRUE, "none") : t \in VolumeTimes}
    \cup {Trade(Now - 1000, 1000, 5, FALSE, d) : d \in Defects}
    \cup {Trade(Now - 1000, 1000, -5, FALSE, "none")}    \* qty: "-5"

InitVolume ==
    /\ pc = "feed"
    /\ trades = <<>>
    /\ startTime = 0
    /\ volume = ZeroVolume
    /\ targetTime = 0
    /\ priceAt = NoPrice
    /\ orderBook = NullBook
    /\ currentPrice = 0
    /\ volume24h = 0
    /\ zones = <<>>
    /\ signal = NoSignal
    /\ percentChange = Change(0, 1)
    /\ buyRatio = 0
    /\ message = NoMessage
    /\ failed = {}
    /\ chat = <<>>
    /\ errorCount = 0
    /\ trigger = "none"
    /\ lastUpdateTime = 0
    /\ throttled = NoThrottle
    /\ retry = NoRetry
    /\ sched = NoSchedule

FeedVolumeTrade ==
    /\ pc = "feed"
    /\ Len(trades) < MaxTrades
    /\ \E tr \in VolumeTradeSet : trades' = Append(trades, tr)
    /\ UNCHANGED <<pc, callVars, zoneVars, signal, classVars, cycleVars, asyncVars>>

CallCalculateVolume ==
    /\ pc = "feed"
    /\ \E s \in VolumeStarts :
          /\ startTime' = s
          /\ volume' = calculateVolume(trades, s)
    /\ pc' = "volume_done"
    /\ UNCHANGED <<trades, targetTime, priceAt, zoneVars, signal, classVars, cycleVars, asyncVars>>

NextVolume == FeedVolumeTrade \/ CallCalculateVolume

SpecVolume == InitVolume /\ [][NextVolume]_vars

(***************************************************************************)
(* Sums over the positions of a trade list, used to state the claims       *)
(***************************************************************************)
RECURSIVE SumOver(_, _)
SumOver(f, S) ==
    IF S = {} THEN 0
    ELSE LET i == CHOOSE j \in S : TRUE IN f[i] + SumOver(f, S \ {i})

TradeValue(list) == [i \in DOMAIN list |-> list[i].price * list[i].qty]
TradeQty(list) == [i \in DOMAIN list |-> list[i].qty]

\* a valid trade: timestamp, price and quantity all parse
ValidTrade(trade) == trade.defect = "none"

\* positions the claim C1 says contribute: valid and startTime <= t <= now
InWindow(list, start) ==
    {i \in DOMAIN list : /\ ValidTrade(list[i])
                         /\ start <= list[i].time
                         /\ list[i].time <= Now}

\* positions the code includes: valid and startTime <= t
Included(list, start) ==
    {i \in DOMAIN list : ValidTrade(list[i]) /\ start <= list[i].time}

Sells(list, S) == {i \in S : list[i].isBuyerMaker}
Buys(list, S) == {i \in S : ~list[i].isBuyerMaker}

TotalsOver(list, S) ==
    [totalSellValue  |-> SumOver(TradeValue(list), Sells(list, S)),
     totalSellAmount |-> SumOver(TradeQty(list), Sells(list, S)),
     totalBuyValue   |-> SumOver(TradeValue(list), Buys(list, S)),
     totalBuyAmount  |-> SumOver(TradeQty(list), Buys(list, S))]

\* C1: the totals calculateVolume returns are exactly the contributions of
\* the valid trades whose timestamp t satisfies startTime <= t <= now; a
\* trade after now and an invalid trade contribute nothing.
C1_CountedIffValidAndInWindow ==
    pc = "volume_done" => volume = TotalsOver(trades, InWindow(trades, startTime))

\* C2: every included trade adds price*qty and qty to the sell side when
\* isBuyerMaker is true and to the buy side otherwise, never to both: the
\* per-side totals are the per-side sums and the two sides together sum to
\* the total over the included trades.
C2_EachTradeOnExactlyOneSide ==
    pc = "volume_done" =>
        LET inc == Included(trades, startTime)
        IN  /\ volume = TotalsOver(trades, inc)
            /\ volume.totalBuyValue + volume.totalSellValue
                 = SumOver(TradeValue(trades), inc)
            /\ volume.totalBuyAmount + volume.totalSellAmount
                 = SumOver(TradeQty(trades), inc)

\* the spec's end-to-end scenario: a buy of 5 at 10.00 at now and a sell of
\* 3 at 9.50 at now-1000, window starting at now-5000
C2_Witness ==
    /\ pc = "volume_done"
    /\ trades = <<Trade(Now, 1000, 5, FALSE, "none"),
                  Trade(Now - 1000, 950, 3, TRUE, "none")>>
    /\ startTime = Now - 5000
    /\ volume = [totalSellValue |-> 2850, totalSellAmount |-> 3,
                 totalBuyValue |-> 5000, totalBuyAmount |-> 5]

\* C18: for all trade lists (empty, unsorted, with invalid entries, with any
\* parseable price and quantity strings) and all startTime values the four
\* totals returned by calculateVolume are each >= 0; empty or fully invalid
\* input yields all zeros.
C18_TotalsNonNegative ==
    pc = "volume_done" =>
        /\ volume.totalBuyValue >= 0
        /\ volume.totalSellValue >= 0
        /\ volume.totalBuyAmount >= 0
        /\ volume.totalSellAmount >= 0
        /\ (\A i \in DOMAIN trades : ~ValidTrade(trades[i])) => volume = ZeroVolume

(***************************************************************************)
(* getPriceAtTime (src/bot.js 381-401)                                     *)
(***************************************************************************)
\* parseFloat(trade.price)
ParsedPrice(trade) == IF PriceIsNaN(trade) THEN NaNPrice ELSE trade.price

\* line 387: parseInt(trade.time) <= targetTime (false when the time is NaN)
AtOrBefore(trade, target) == ~TimeIsNaN(trade) /\ trade.time <= target

\* Math.abs(parseInt(t.time) - targetTime)
TimeDiff(trade, target) ==
    IF trade.time >= target THEN trade.time - target ELSE target - trade.time

\* a plausible slip: on equal distance the later list element replaces the
\* earlier one (<= in place of <)
CloserOfLastWins(prev, curr, target) ==
    IF TimeDiff(curr, target) <= TimeDiff(prev, target) THEN curr ELSE prev

\* lines 394-398: the reduce callback
CloserOf(prev, curr, target) ==
    IF TimeDiff(curr, target) < TimeDiff(prev, target) THEN curr ELSE prev

RECURSIVE ReduceClosest(_, _, _, _)
ReduceClosest(list, target, i, prev) ==
    IF i > Len(list) THEN prev
    ELSE ReduceClosest(list, target, i + 1, CloserOf(prev, list[i], target))

\* line 390: the fallback when no trade is at or before the target
FallbackTrade(list) == list[Len(list)]

getPriceAtTime(list, target) ==
    IF Len(list) = 0 THEN NoPrice
    ELSE LET validTrades == SelectSeq(list, LAMBDA t : AtOrBefore(t, target))
         IN  IF Len(validTrades) = 0
             THEN ParsedPrice(FallbackTrade(list))
             ELSE ParsedPrice(ReduceClosest(validTrades, target, 2, validTrades[1]))

(***************************************************************************)
(* Specification SpecPrice: a trade list arrives from the feed and         *)
(* getPriceAtTime is applied to it.                                        *)
(***************************************************************************)
PriceTimes == {100, 200, 300}
PricePrices == {100, 200, 300}
PriceTargets == {50, 250, 300}

PriceTradeSet ==
    {Trade(t, p, 1, FALSE, "none") : t \in PriceTimes, p \in PricePrices}
    \cup {Trade(200, 200, 1, FALSE, "nanTime"), Trade(200, 200, 1, FALSE, "nanPrice")}

InitPrice == InitVolume

FeedPriceTrade ==
    /\ pc = "feed"
    /\ Len(trades) < MaxTrades
    /\ \E tr \in PriceTradeSet : trades' = Append(trades, tr)
    /\ UNCHANGED <<pc, callVars, zoneVars, signal, classVars, cycleVars, asyncVars>>

CallGetPriceAtTime ==
    /\ pc = "feed"
    /\ \E tt \in PriceTargets :
          /\ targetTime' = tt
          /\ priceAt' = getPriceAtTime(trades, tt)
    /\ pc' = "price_done"
    /\ UNCHANGED <<trades, startTime, volume, zoneVars, signal, classVars, cycleVars, asyncVars>>

NextPrice == FeedPriceTrade \/ CallGetPriceAtTime

SpecPrice == InitPrice /\ [][NextPrice]_vars

(***************************************************************************)
(* Claims about getPriceAtTime                                             *)
(***************************************************************************)
\* positions of the trades with a timestamp at or before the target
Qualifying(list, target) == {i \in DOMAIN list : AtOrBefore(list[i], target)}

\* positions with a parseable timestamp
Timed(list) == {i \in DOMAIN list : ~TimeIsNaN(list[i])}

\* positions of S whose timestamp is the smallest / the largest of S
Oldest(list, S) == {i \in S : \A j \in S : list[i].time <= list[j].time}
Newest(list, S) == {i \in S : \A j \in S : list[i].time >= list[j].time}

\* the smallest position of a non-empty set of positions
FirstOf(S) == CHOOSE i \in S : \A j \in S : i <= j

\* all reorderings of a list
Reorderings(list) ==
    LET n == Len(list)
        bij == {f \in [1..n -> 1..n] : \A i, j \in 1..n : f[i] = f[j] => i = j}
    IN  {[i \in 1..n |-> list[f[i]]] : f \in bij}

\* C6: when the list is non-empty and no trade has a timestamp <= targetTime,
\* the result is the price of the trade with the smallest timestamp in the
\* list, whatever the order of the list.
C6_FallbackIsOldestTrade ==
    (/\ pc = "price_done"
     /\ Len(trades) > 0
     /\ Timed(trades) = DOMAIN trades
     /\ Qualifying(trades, targetTime) = {})
    => \E i \in Oldest(trades, DOMAIN trades) : priceAt = ParsedPrice(trades[i])

\* C7 as stated: the result is the price of a trade at or before the target
\* that is nearest to it, and it is the same for every order of the list.
C7_NearestAndOrderIndependent ==
    (pc = "price_done" /\ Qualifying(trades, targetTime) # {})
    => /\ \E i \in Newest(trades, Qualifying(trades, targetTime)) :
              priceAt = ParsedPrice(trades[i])
       /\ \A other \in Reorderings(trades) :
              getPriceAtTime(other, targetTime) = priceAt

\* C7 as amended: the result is the price of the nearest trade at or before
\* the target, never of a trade after it; among equally near trades (they
\* share one timestamp) the one that comes first in the list is chosen.
C7_NearestFirstInList ==
    (pc = "price_done" /\ Qualifying(trades, targetTime) # {})
    => priceAt = ParsedPrice(trades[FirstOf(Newest(trades, Qualifying(trades, targetTime)))])

\* two equally near trades with different prices, and a trade after the target
C7_Witness ==
    /\ pc = "price_done"
    /\ targetTime = 250
    /\ \E i, j, k \in DOMAIN trades :
          /\ i < j
          /\ trades[i] = Trade(200, 300, 1, FALSE, "none")
          /\ trades[j] = Trade(200, 100, 1, FALSE, "none")
          /\ trades[k].time = 300 /\ trades[k].defect = "none"
    /\ priceAt = 300

(***************************************************************************)
(* Array.prototype.sort as V8 runs it on the short arrays of this program  *)
(* (TimSort below 64 elements: the initial run is found and, if strictly   *)
(* descending, reversed; the remaining elements are placed by binary       *)
(* insertion).  cmp[x, y] is the comparator's result for (x, y).           *)
(***************************************************************************)
Range(list) == {list[i] : i \in DOMAIN list}

Reverse(list) == [i \in 1..Len(list) |-> list[Len(list) + 1 - i]]

InsertAt(list, k, x) == SubSeq(list, 1, k) \o <<x>> \o SubSeq(list, k + 1, Len(list))

RECURSIVE BinarySearch(_, _, _, _, _)
BinarySearch(sorted, pivot, cmp, left, right) ==
    IF left >= right THEN left
    ELSE LET mid == left + ((right - left) \div 2)
         IN  IF cmp[pivot, sorted[mid + 1]] < 0
             THEN BinarySearch(sorted, pivot, cmp, left, mid)
             ELSE BinarySearch(sorted, pivot, cmp, mid + 1, right)

RECURSIVE BinaryInsertionSort(_, _, _)
BinaryInsertionSort(sorted, rest, cmp) ==
    IF rest = <<>> THEN sorted
    ELSE LET pivot == Head(rest)
             k == BinarySearch(sorted, pivot, cmp, 0, Len(sorted))
         IN  BinaryInsertionSort(InsertAt(sorted, k, pivot), Tail(rest), cmp)

RECURSIVE RunLength(_, _, _, _)
RunLength(list, cmp, desc, n) ==
    IF n >= Len(list) THEN n
    ELSE LET order == cmp[list[n + 1], list[n]]
         IN  IF (desc /\ order >= 0) \/ (~desc /\ order < 0) THEN n
             ELSE RunLength(list, cmp, desc, n + 1)

ArraySort(list, cmp) ==
    IF Len(list) < 2 THEN list
    ELSE LET desc == cmp[list[2], list[1]] < 0
             n == RunLength(list, cmp, desc, 2)
             run == IF desc THEN Reverse(SubSeq(list, 1, n)) ELSE SubSeq(list, 1, n)
         IN  BinaryInsertionSort(run, SubSeq(list, n + 1, Len(list)), cmp)

\* list.slice(0, n)
Slice(list, n) == SubSeq(list, 1, IF Len(list) < n THEN Len(list) ELSE n)

\* Math.round(a / b) for a >= 0, b > 0
RoundDiv(a, b) == (2 * a + b) \div (2 * b)

Abs(x) == IF x < 0 THEN -x ELSE x

\* Math.round(value / currentPrice); NotFinite (Infinity or NaN) when
\* currentPrice is 0
NotFinite == -1
EstimatedAmount(value, cp) == IF cp = 0 THEN NotFinite ELSE RoundDiv(value, cp)

(***************************************************************************)
(* generateBuyZones (src/bot.js 404-571)                                   *)
(*                                                                         *)
(* Units here and in the signal cycle: a price is a number of PriceUnits   *)
(* of 0.00001 USDT, an amount a number of tokens, a value and the 24h      *)
(* volume a number of 0.00001 USDT.  Inputs are chosen so that every       *)
(* product with a decimal constant of the code is an integer (currentPrice *)
(* a multiple of 200, volume24h a multiple of 1000).                       *)
(***************************************************************************)
UsdtUnits == 100000      \* PriceUnits in 1 USDT

Zone(p, a, v) == [price |-> p, amount |-> a, value |-> v]

\* lines 406-417
defaultBuyZones(cp, vol24h) ==
    << Zone((cp * 99) \div 100,
            EstimatedAmount(7 * (vol24h \div 100), cp),
            7 * (vol24h \div 100)),
       Zone((cp * 97) \div 100,
            EstimatedAmount(10 * (vol24h \div 100), cp),
            10 * (vol24h \div 100)) >>

\* lines 554-570
syntheticZones(cp, vol24h) ==
    << Zone((cp * 995) \div 1000,
            EstimatedAmount(5 * (vol24h \div 100), cp),
            5 * (vol24h \div 100)),
       Zone((cp * 985) \div 1000,
            EstimatedAmount(8 * (vol24h \div 100), cp),
            8 * (vol24h \div 100)),
       Zone((cp * 97) \div 100,
            EstimatedAmount(12 * (vol24h \div 100), cp),
            12 * (vol24h \div 100)) >>

\* line 424: cp < 0.01 ? 0.00001 : cp < 1 ? 0.0001 : 0.001
priceBucketSize(cp) ==
    IF cp * 100 < UsdtUnits THEN 1
    ELSE IF cp < UsdtUnits THEN 10 ELSE 100

\* line 496: cp < 0.01 ? 0.0001 : cp < 1 ? 0.001 : 0.01
tradeWindow(cp) ==
    IF cp * 100 < UsdtUnits THEN 10
    ELSE IF cp < UsdtUnits THEN 100 ELSE 1000

\* Math.floor(price / size) * size
BucketKey(price, size) == (price \div size) * size

\* groups[key].amount += amount; groups[key].value += value, the group being
\* created with the price of the first entry that falls into it; nan tells
\* that the entry's value is NaN, which makes the group's value NaN
AddToGroup(groups, key, price, amount, value, nan) ==
    IF \E i \in DOMAIN groups : groups[i].key = key
    THEN [i \in DOMAIN groups |->
             IF groups[i].key = key
             THEN [groups[i] EXCEPT !.amount = @ + amount, !.value = @ + value,
                                    !.nan = @ \/ nan]
             ELSE groups[i]]
    ELSE Append(groups, [key |-> key, price |-> price, amount |-> amount,
                         value |-> value, nan |-> nan])

\* Object.values(groups): properties whose key is an integer index come
\* first in ascending order, the others follow in insertion order
IsIndexKey(key) == key >= 0 /\ key % UsdtUnits = 0

ObjectValues(groups) ==
    LET idx == SelectSeq(groups, LAMBDA g : IsIndexKey(g.key))
        byKey == [x \in Range(idx), y \in Range(idx) |-> x.key - y.key]
        ordered == ArraySort(idx, byKey) \o SelectSeq(groups, LAMBDA g : ~IsIndexKey(g.key))
    IN  ordered

\* zone.value > threshold, false when the value is NaN
ValueAbove(g, threshold) == ~g.nan /\ g.value > threshold

ToZones(groups) ==
    [i \in DOMAIN groups |-> Zone(groups[i].price, groups[i].amount, groups[i].value)]

\* lines 432, 435: the bids the forEach callback drops
BidSkipped(bid, cp) ==
    \/ bid[1] * bid[2] < 50 * UsdtUnits
    \/ bid[1] * 10 < cp * 9

\* lines 426-444
RECURSIVE GroupBids(_, _, _, _)
GroupBids(bids, cp, i, groups) ==
    IF i > Len(bids) THEN groups
    ELSE GroupBids(bids, cp, i + 1,
            IF BidSkipped(bids[i], cp) THEN groups
            ELSE AddToGroup(groups,
                            BucketKey(bids[i][1], priceBucketSize(cp)),
                            bids[i][1], bids[i][2], bids[i][1] * bids[i][2], FALSE))

\* lines 453-464: the comparator of the order-book ranking
BidZoneCompare(a, b, cp) ==
    IF 20 * (cp - a.price) < cp
       /\ 20 * (cp - b.price) < cp
    THEN b.value - a.value
    ELSE b.price - a.price

\* lines 451-464
significantZones(bids, cp, vol24h) ==
    LET bidZones == ObjectValues(GroupBids(bids, cp, 1, <<>>))
        kept == ToZones(SelectSeq(bidZones,
                                  LAMBDA z : ValueAbove(z, 3 * (vol24h \div 1000))))
        cmp == [a \in Range(kept), b \in Range(kept) |-> BidZoneCompare(a, b, cp)]
    IN  ArraySort(kept, cmp)

\* lines 476-478, 538-540: Math.abs(zone.price - d.price) / d.price < 0.02
Similar(zone, defaultZone) == 50 * Abs(zone.price - defaultZone.price) < defaultZone.price

\* lines 474-483, 536-545: the default zones that are pushed
KeptDefaults(against, cp, vol24h) ==
    SelectSeq(defaultBuyZones(cp, vol24h),
              LAMBDA d : ~\E i \in DOMAIN against : Similar(against[i], d))

\* a plausible slip: the final sort is ascending by price
ByPriceAscending(list) ==
    ArraySort(list, [a \in Range(list), b \in Range(list) |-> a.price - b.price])

\* lines 486, 548: sort((a, b) => b.price - a.price)
ByPriceDescending(list) ==
    ArraySort(list, [a \in Range(list), b \in Range(list) |-> b.price - a.price])

\* line 492: the buy trades of the last three hours
buyTrades(list) ==
    SelectSeq(list, LAMBDA t : /\ ~TimeIsNaN(t)
                               /\ t.time >= Now - 3 * 60 * 60 * 1000
                               /\ ~t.isBuyerMaker)

\* the property key of Math.floor(NaN / tradeWindow) * tradeWindow
NaNKey == -1

\* lines 498-514 (a trade with an unparseable price lands in the group "NaN",
\* one with an unparseable quantity turns its group's amount and value NaN)
RECURSIVE GroupTrades(_, _, _, _)
GroupTrades(list, cp, i, groups) ==
    IF i > Len(list) THEN groups
    ELSE GroupTrades(list, cp, i + 1,
            IF PriceIsNaN(list[i])
            THEN AddToGroup(groups, NaNKey, NaNPrice, 0, 0, TRUE)
            ELSE IF list[i].price * 10 < cp * 9 THEN groups
            ELSE AddToGroup(groups,
                            BucketKey(list[i].price, tradeWindow(cp)),
                            list[i].price, list[i].qty, list[i].price * list[i].qty,
                            QtyIsNaN(list[i])))

\* lines 519-530: the comparator of the trade-cluster ranking
TradeZoneCompare(a, b, cp) ==
    LET aDistance == Abs(cp - a.price)
        bDistance == Abs(cp - b.price)
    IN  IF 100 * Abs(aDistance - bDistance) < cp
        THEN b.value - a.value
        ELSE aDistance - bDistance

\* lines 517-530
historicalZones(list, cp, vol24h) ==
    LET clusters == ObjectValues(GroupTrades(list, cp, 1, <<>>))
        kept == ToZones(SelectSeq(clusters,
                                  LAMBDA z : ValueAbove(z, 2 * (vol24h \div 1000))))
        cmp == [a \in Range(kept), b \in Range(kept) |-> TradeZoneCompare(a, b, cp)]
    IN  ArraySort(kept, cmp)

\* line 420: orderBook && orderBook.bids && orderBook.bids.length > 0
HasBids(book) == book.present /\ Len(book.bids) > 0

generateBuyZones(list, book, cp, vol24h) ==
    LET sig == IF HasBids(book) THEN significantZones(book.bids, cp, vol24h) ELSE <<>>
        buys == buyTrades(list)
        hist == IF Len(buys) >= 5 THEN historicalZones(buys, cp, vol24h) ELSE <<>>
    IN  IF Len(sig) > 0
        THEN Slice(ByPriceDescending(Slice(sig, 2)
                      \o KeptDefaults(Slice(sig, 2), cp, vol24h)), 3)
        ELSE IF Len(hist) > 0
        THEN Slice(ByPriceDescending(Slice(hist, 2)
                      \o KeptDefaults(hist, cp, vol24h)), 3)
        ELSE syntheticZones(cp, vol24h)

(***************************************************************************)
(* Specification SpecZones: an order-book snapshot and a trade list arrive *)
(* and generateBuyZones is applied to them.  Prices are given in permille  *)
(* of currentPrice plus an offset, amounts by the USDT value they have at  *)
(* currentPrice.                                                           *)
(***************************************************************************)
PriceAt(cp, permille, offset) == (cp * permille) \div 1000 + offset
AmountFor(cp, usdt) == (usdt * UsdtUnits) \div cp

\* <<currentPrice, volume24h>>: 0.008, 0.2 and 1 USDT (one per bucket size),
\* 24h volume of 0, 1000 and 20000 USDT
ZoneMarkets == { <<800, 1000 * UsdtUnits>>,
                 <<20000, 0>>,
                 <<20000, 20000 * UsdtUnits>>,
                 <<100000, 1000 * UsdtUnits>> }

ZoneBidSet(cp) ==
    { <<PriceAt(cp, 985, 0), AmountFor(cp, 60)>>,
      <<PriceAt(cp, 985, 3), AmountFor(cp, 60)>>,
      <<PriceAt(cp, 985, 3), AmountFor(cp, 30)>>,
      <<PriceAt(cp, 970, 0), AmountFor(cp, 200)>>,
      <<PriceAt(cp, 940, 0), AmountFor(cp, 60)>>,
      <<PriceAt(cp, 880, 0), AmountFor(cp, 200)>>,
      <<PriceAt(cp, 1010, 0), AmountFor(cp, 60)>>,
      <<PriceAt(cp, 990, 0), AmountFor(cp, 200)>> }

ZoneTradeSet(cp) ==
    { Trade(Now - 60000, PriceAt(cp, 985, 0), AmountFor(cp, 30), FALSE, "none"),
      Trade(Now - 60000, PriceAt(cp, 985, 3), AmountFor(cp, 30), FALSE, "none"),
      Trade(Now - 60000, PriceAt(cp, 930, 0), AmountFor(cp, 60), FALSE, "none"),
      Trade(Now - 60000, PriceAt(cp, 1200, 0), AmountFor(cp, 30), FALSE, "none"),
      Trade(Now - 60000, PriceAt(cp, 985, 0), AmountFor(cp, 30), TRUE, "none"),
      Trade(Now - 60000, PriceAt(cp, 985, 0), AmountFor(cp, 30), FALSE, "nanQty"),
      Trade(Now - 4 * 60 * 60 * 1000, PriceAt(cp, 985, 0), AmountFor(cp, 30), FALSE, "none") }

\* line 276: the snapshot of a failed fetch, { bids: [], asks: [] }
EmptyBook == [present |-> TRUE, bids |-> <<>>]

InitZones ==
    /\ pc = "feed"
    /\ trades = <<>>
    /\ startTime = 0
    /\ volume = ZeroVolume
    /\ targetTime = 0
    /\ priceAt = NoPrice
    /\ orderBook \in {NullBook, EmptyBook}
    /\ \E m \in ZoneMarkets : currentPrice = m[1] /\ volume24h = m[2]
    /\ zones = <<>>
    /\ signal = NoSignal
    /\ percentChange = Change(0, 1)
    /\ buyRatio = 0
    /\ message = NoMessage
    /\ failed = {}
    /\ chat = <<>>
    /\ errorCount = 0
    /\ trigger = "none"
    /\ lastUpdateTime = 0
    /\ throttled = NoThrottle
    /\ retry = NoRetry
    /\ sched = NoSchedule

FeedBid ==
    /\ pc = "feed"
    /\ orderBook.present
    /\ Len(trades) = 0
    /\ Len(orderBook.bids) < MaxBids
    /\ \E bid \in ZoneBidSet(currentPrice) :
          orderBook' = [orderBook EXCEPT !.bids = Append(@, bid)]
    /\ UNCHANGED <<pc, trades, callVars, currentPrice, volume24h, zones, signal, classVars, cycleVars, asyncVars>>

\* the snapshot arrives first; the trade list is only read when the order
\* book yields no zone
FeedZoneTrade ==
    /\ pc = "feed"
    /\ Len(trades) < MaxZoneTrades
    /\ Len(orderBook.bids) <= 1
    /\ IF HasBids(orderBook)
       THEN significantZones(orderBook.bids, currentPrice, volume24h) = <<>>
       ELSE TRUE
    /\ \E tr \in ZoneTradeSet(currentPrice) : trades' = Append(trades, tr)
    /\ UNCHANGED <<pc, callVars, zoneVars, signal, classVars, cycleVars, asyncVars>>

CallGenerateBuyZones ==
    /\ pc = "feed"
    /\ zones' = generateBuyZones(trades, orderBook, currentPrice, volume24h)
    /\ pc' = "zones_done"
    /\ UNCHANGED <<trades, callVars, orderBook, currentPrice, volume24h, signal, classVars, cycleVars, asyncVars>>

NextZones == FeedBid \/ FeedZoneTrade \/ CallGenerateBuyZones

SpecZones == InitZones /\ [][NextZones]_vars

(***************************************************************************)
(* Specification for the merge of ranked zones with the default zones:     *)
(* currentPrice is 0.2 USDT, the trades and bids lie in three price        *)
(* buckets at 1.015, 0.955 and 0.95 of currentPrice, so that up to three   *)
(* zones are ranked and the third one lies within 2% of a default zone.    *)
(***************************************************************************)
ClusterMarkets == { <<20000, 0>>, <<20000, 1000 * UsdtUnits>> }

ClusterTradeSet(cp) ==
    { Trade(Now - 60000, PriceAt(cp, 1015, 0), AmountFor(cp, 30), FALSE, "none"),
      Trade(Now - 60000, PriceAt(cp, 950, 0), AmountFor(cp, 60), FALSE, "none"),
      Trade(Now - 60000, PriceAt(cp, 955, 0), AmountFor(cp, 30), FALSE, "none"),
      Trade(Now - 60000, PriceAt(cp, 985, 0), AmountFor(cp, 30), FALSE, "none"),
      Trade(Now - 60000, PriceAt(cp, 930, 0), AmountFor(cp, 60), FALSE, "none") }

ClusterBook(cp) ==
    [present |-> TRUE,
     bids |-> << <<PriceAt(cp, 1015, 0), AmountFor(cp, 200)>>,
                 <<PriceAt(cp, 950, 0), AmountFor(cp, 400)>>,
                 <<PriceAt(cp, 955, 0), AmountFor(cp, 200)>> >>]

InitClusters ==
    /\ pc = "feed"
    /\ trades = <<>>
    /\ startTime = 0
    /\ volume = ZeroVolume
    /\ targetTime = 0
    /\ priceAt = NoPrice
    /\ \E m \in ClusterMarkets : currentPrice = m[1] /\ volume24h = m[2]
    /\ orderBook \in {NullBook, EmptyBook, ClusterBook(currentPrice)}
    /\ zones = <<>>
    /\ signal = NoSignal
    /\ percentChange = Change(0, 1)
    /\ buyRatio = 0
    /\ message = NoMessage
    /\ failed = {}
    /\ chat = <<>>
    /\ errorCount = 0
    /\ trigger = "none"
    /\ lastUpdateTime = 0
    /\ throttled = NoThrottle
    /\ retry = NoRetry
    /\ sched = NoSchedule

FeedClusterTrade ==
    /\ pc = "feed"
    /\ Len(trades) < MaxZoneTrades
    /\ ~HasBids(orderBook)
    /\ \E tr \in ClusterTradeSet(currentPrice) : trades' = Append(trades, tr)
    /\ UNCHANGED <<pc, callVars, zoneVars, signal, classVars, cycleVars, asyncVars>>

NextClusters == FeedClusterTrade \/ CallGenerateBuyZones

SpecClusters == InitClusters /\ [][NextClusters]_vars

(***************************************************************************)
(* Claims about generateBuyZones                                           *)
(***************************************************************************)
\* C8: whichever path produces the result, the returned list has at most 3
\* zones and its prices are non-increasing from first to last.
C8_AtMostThreeSortedDescending ==
    pc = "zones_done" =>
        /\ Len(zones) <= 3
        /\ \A i, j \in DOMAIN zones : i < j => zones[i].price >= zones[j].price

\* the order-book path merged two ranked buckets with both default zones,
\* so that four candidates were cut down to three
C8_Witness ==
    /\ pc = "zones_done"
    /\ HasBids(orderBook)
    /\ LET sig == significantZones(orderBook.bids, currentPrice, volume24h)
       IN  /\ Len(sig) >= 2
           /\ Len(KeptDefaults(Slice(sig, 2), currentPrice, volume24h)) = 2
    /\ Len(zones) = 3
    /\ zones[1].price > zones[3].price

\* C9: for fixed currentPrice and volume24h every reordering of the bids and
\* of the trades yields the same returned zones (same price, amount, value).
C9_SameZonesForEveryOrder ==
    pc = "zones_done" =>
        \A bids \in Reorderings(orderBook.bids), list \in Reorderings(trades) :
            generateBuyZones(list, [orderBook EXCEPT !.bids = bids],
                             currentPrice, volume24h) = zones

\* C10: every returned zone satisfies value = price * amount within rounding
\* tolerance (the amount is rounded to whole tokens: one token's price).
C10_ValueIsPriceTimesAmount ==
    pc = "zones_done" =>
        \A i \in DOMAIN zones :
            Abs(zones[i].value - zones[i].price * zones[i].amount) <= zones[i].price

\* the bids within 90% of currentPrice, and the buckets they fall into
NearBids(bids, cp) == {i \in DOMAIN bids : bids[i][1] * 10 >= cp * 9}
BidBucket(bid, cp) == BucketKey(bid[1], priceBucketSize(cp))
BidValues(bids) == [i \in DOMAIN bids |-> bids[i][1] * bids[i][2]]

\* the buckets whose aggregate value reaches the floor of 50
BucketsAboveFloor(bids, cp) ==
    {k \in {BidBucket(bids[i], cp) : i \in NearBids(bids, cp)} :
        SumOver(BidValues(bids),
                {i \in NearBids(bids, cp) : BidBucket(bids[i], cp) = k})
            >= 50 * UsdtUnits}

\* C21: in the order-book path the 50-unit floor applies to a bucket's
\* aggregate value: a bucket is discarded exactly when the sum of
\* price * amount over all bids falling into it is below 50 or its price is
\* below 90% of currentPrice, so several bids each worth less than 50 that
\* together reach 50 in one bucket keep that bucket.
C21_FloorOnBucketAggregate ==
    (pc = "zones_done" /\ HasBids(orderBook)) =>
        {g.key : g \in Range(GroupBids(orderBook.bids, currentPrice, 1, <<>>))}
            = BucketsAboveFloor(orderBook.bids, currentPrice)

\* C22: the trade history is consulted only when the order-book snapshot is
\* absent or has no bids: whenever the snapshot has at least one bid the
\* result consists of the (possibly zero) qualifying order-book buckets
\* merged with the default zones at 0.99 and 0.97 of currentPrice, and
\* neither trade clusters nor the three synthetic zones are returned.
C22_BidsExcludeTradeHistory ==
    (pc = "zones_done" /\ HasBids(orderBook)) =>
        LET selected == Slice(significantZones(orderBook.bids, currentPrice,
                                               volume24h), 2)
        IN  zones = Slice(ByPriceDescending(
                              selected \o KeptDefaults(selected, currentPrice,
                                                       volume24h)), 3)

\* the trades that qualify for clustering: buy-initiated, from the last 3
\* hours, priced within 10% of currentPrice
QualifyingTrades(list, cp) ==
    {i \in DOMAIN list :
        /\ ~TimeIsNaN(list[i])
        /\ list[i].time >= Now - 3 * 60 * 60 * 1000
        /\ ~list[i].isBuyerMaker
        /\ ~PriceIsNaN(list[i])
        /\ list[i].price * 10 >= cp * 9
        /\ list[i].price * 10 <= cp * 11}

\* C23: in the trade-history fallback clustering is attempted only if at
\* least 5 trades qualify (buy-initiated, from the last 3 hours, priced
\* within 10% of currentPrice); with fewer than 5 such trades the three
\* synthetic zones are returned, even if the list holds 5 or more recent
\* buy trades priced outside that band.
C23_FiveQualifyingTrades ==
    (/\ pc = "zones_done"
     /\ ~HasBids(orderBook)
     /\ Cardinality(QualifyingTrades(trades, currentPrice)) < 5)
    => zones = syntheticZones(currentPrice, volume24h)

\* the ranked zones merged with the default zones when only the (at most
\* 2) selected zones are compared with each default zone
MergeWithSelected(ranked, cp, vol24h) ==
    Slice(ByPriceDescending(Slice(ranked, 2)
                            \o KeptDefaults(Slice(ranked, 2), cp, vol24h)), 3)

\* C24: in both the order-book path and the trade-history path a default
\* zone (0.99 or 0.97 of currentPrice) is added exactly when no
\* already-selected zone (one of the at most 2 zones taken from the
\* ranking) is within 2% of the default zone's price; zones that were
\* ranked but not selected never suppress a default zone.
C24_DefaultsComparedWithSelected ==
    pc = "zones_done" =>
        LET sig == IF HasBids(orderBook)
                   THEN significantZones(orderBook.bids, currentPrice, volume24h)
                   ELSE <<>>
            buys == buyTrades(trades)
            hist == IF Len(buys) >= 5
                    THEN historicalZones(buys, currentPrice, volume24h)
                    ELSE <<>>
        IN  IF Len(sig) > 0
            THEN zones = MergeWithSelected(sig, currentPrice, volume24h)
            ELSE IF Len(hist) > 0
            THEN zones = MergeWithSelected(hist, currentPrice, volume24h)
            ELSE TRUE

\* C11: every zone returned by generateBuyZones has a price below
\* currentPrice (for currentPrice > 0), also when the order book holds bids
\* or the trade list holds buy trades priced at or above currentPrice.
C11_ZonesBelowCurrentPrice ==
    (pc = "zones_done" /\ currentPrice > 0) =>
        \A i \in DOMAIN zones : zones[i].price < currentPrice

(***************************************************************************)
(* sendTcapySignal (src/bot.js 909-1135): the analysis of one cycle.       *)
(* Windows are numbered in the order of the timeframes array: 1 = 15       *)
(* minutes, 2 = 30 minutes, 3 = 1 hour, 4 = 4 hours.                       *)
(***************************************************************************)
Windows == 1..4

\* lines 946-949: fifteenMinutesAgo, thirtyMinutesAgo, oneHourAgo, fourHoursAgo
WindowStart(w) ==
    IF w = 1 THEN Now - 15 * 60 * 1000
    ELSE IF w = 2 THEN Now - 30 * 60 * 1000
    ELSE IF w = 3 THEN Now - 60 * 60 * 1000
    ELSE Now - 4 * 60 * 60 * 1000

\* lines 958-961: getPriceAtTime(trades, t) || currentPrice
PriceAgo(list, w, cp) ==
    LET found == getPriceAtTime(list, WindowStart(w))
    IN  IF found = NoPrice \/ found = NaNPrice \/ found = 0 THEN cp ELSE found

\* lines 964-967: (currentPrice - priceAgo) / priceAgo * 100
PercentChange(list, w, cp) ==
    LET ago == PriceAgo(list, w, cp) IN Change(cp - ago, ago)

\* change > tenths / 10 (false for NaN)
ChangeAbove(c, tenths) == c.den # 0 /\ 1000 * c.num > tenths * c.den

\* the sign of a - b for two percent changes (NaN compares as 0)
ChangeDiff(a, b) ==
    IF a.den = 0 \/ b.den = 0 THEN 0 ELSE a.num * b.den - b.num * a.den

AbsChange(c) == Change(Abs(c.num), c.den)

\* calculateBuyRatio with the returns of "> 1" and "> 0.2" exchanged
calculateBuyRatioSwapped(c) ==
    IF ChangeAbove(c, 20) THEN 8
    ELSE IF ChangeAbove(c, 10) THEN 6
    ELSE IF ChangeAbove(c, 2) THEN 7
    ELSE IF ChangeAbove(c, -2) THEN 5
    ELSE IF ChangeAbove(c, -10) THEN 4
    ELSE IF ChangeAbove(c, -20) THEN 3
    ELSE 2

\* lines 338-346, in tenths
calculateBuyRatio(c) ==
    IF ChangeAbove(c, 20) THEN 8
    ELSE IF ChangeAbove(c, 10) THEN 7
    ELSE IF ChangeAbove(c, 2) THEN 6
    ELSE IF ChangeAbove(c, -2) THEN 5
    ELSE IF ChangeAbove(c, -10) THEN 4
    ELSE IF ChangeAbove(c, -20) THEN 3
    ELSE 2

\* lines 333-335, in hundredths; window 4 has no share in this file
WindowPercent(w, c) ==
    IF w = 1 THEN (IF ChangeAbove(c, 0) THEN 4 ELSE 3)
    ELSE IF w = 2 THEN (IF ChangeAbove(c, 0) THEN 6 ELSE 5)
    ELSE (IF ChangeAbove(c, 0) THEN 10 ELSE 8)

\* lines 358-377: one window of estimateVolumeDistribution
EstimatedWindow(vol24h, w, c, cp) ==
    LET ratio == calculateBuyRatio(c)
        buy == (vol24h \div 1000) * WindowPercent(w, c) * ratio
        sell == (vol24h \div 1000) * WindowPercent(w, c) * (10 - ratio)
    IN  [totalSellValue  |-> sell,
         totalSellAmount |-> EstimatedAmount(sell, cp),
         totalBuyValue   |-> buy,
         totalBuyAmount  |-> EstimatedAmount(buy, cp)]

\* lines 331-378: the windows min15, min30 and hour1 of the result
estimateVolumeDistribution(vol24h, changes, cp) ==
    [w \in 1..3 |-> EstimatedWindow(vol24h, w, changes[w], cp)]

\* lines 985-987: buy value + sell value > volume24h * 0.01
isActualVolumeReliable(vol, vol24h) ==
    vol.totalBuyValue + vol.totalSellValue > vol24h \div 100

\* lines 989-991, 1006: which figures a window uses
WindowSource(w, actual, vol24h) ==
    IF w = 4 THEN "actual"
    ELSE IF isActualVolumeReliable(actual, vol24h) THEN "actual" ELSE "estimated"

\* lines 1010-1011: the position in timeframes of significantTimeframes[0]
PrimaryTimeframe(changes) ==
    LET timeframes == [w \in Windows |-> [window |-> w, change |-> changes[w]]]
        cmp == [a \in Range(timeframes), b \in Range(timeframes) |->
                   ChangeDiff(b.change, a.change)]
    IN  ArraySort(timeframes, cmp)[1].window

\* lines 933-1025 for a non-empty trade list with a numeric first price
Analyse(list, vol24h) ==
    LET cp == ParsedPrice(list[1])
        changes == [w \in Windows |-> PercentChange(list, w, cp)]
        actual == [w \in Windows |-> calculateVolume(list, WindowStart(w))]
        source == [w \in Windows |-> WindowSource(w, actual[w], vol24h)]
        estimated == estimateVolumeDistribution(vol24h, changes, cp)
    IN  [status |-> "sent",
         changes |-> changes,
         actual |-> actual,
         source |-> source,
         estimated |-> estimated,
         data |-> [w \in Windows |->
                      IF source[w] = "actual" THEN actual[w] ELSE estimated[w]],
         primary |-> PrimaryTimeframe(changes)]

(***************************************************************************)
(* Specification SpecSignal: the feeds answer and one signal cycle runs.   *)
(* The trade feed delivers the newest trade first (line 938).              *)
(***************************************************************************)
SignalTimes == {Now - 60000, Now - 20 * 60000, Now - 45 * 60000,
                Now - 120 * 60000, Now - 300 * 60000}

\* prices of 0.196, 0.2, 0.218 and 0 USDT
SignalTradeSet ==
    {Trade(t, 19600, 1500, TRUE, "none") : t \in SignalTimes}
    \cup {Trade(t, 20000, 300, FALSE, "none") : t \in SignalTimes}
    \cup {Trade(t, 21800, 300, FALSE, "none") : t \in SignalTimes}
    \cup {Trade(t, 0, 300, FALSE, "none") : t \in SignalTimes}

\* the 24h volume the quote feed and the exchange report when they answer
CmcVolume == 20000 * UsdtUnits
MexcVolume == 1000 * UsdtUnits

\* the order book the exchange holds
SignalBooks == { EmptyBook, [present |-> TRUE, bids |-> <<<<19700, 1500>>>>] }

\* the four fetches of Promise.all (lines 920-931) and the Telegram API;
\* an outcome of a cycle is the set of those that fail during it
Feeds == {"cmc", "mexc", "trades", "book"}
Outcomes == SUBSET (Feeds \cup {"telegram"})
Triggers == {"command", "scheduled"}

\* the cycle throws on a failed quote fetch as well (no catch at line 921)
CycleThrowsOnQuote(list, down) ==
    IF "trades" \in down \/ "cmc" \in down THEN TRUE
    ELSE IF Len(list) = 0 THEN TRUE
    ELSE ParsedPrice(list[1]) = NaNPrice

\* lines 926-929, 934-943: a failed trade fetch is turned into [], and an
\* empty list or an unparseable first price makes the cycle throw
CycleThrows(list, down) ==
    IF "trades" \in down THEN TRUE
    ELSE IF Len(list) = 0 THEN TRUE
    ELSE ParsedPrice(list[1]) = NaNPrice

\* lines 921-925 and 970: a failed quote has volume24h 0, a failed exchange
\* volume is 0 (line 221)
CycleVolume24h(down) ==
    LET cmc == IF "cmc" \in down THEN 0 ELSE CmcVolume
        mexc == IF "mexc" \in down THEN 0 ELSE MexcVolume
    IN  IF cmc > 0 THEN cmc ELSE mexc

\* line 276: a failed order-book fetch yields the empty snapshot
CycleBooks(down) == IF "book" \in down THEN {EmptyBook} ELSE SignalBooks

\* lines 1119-1131: the catch block tells the group when no ctx was given
ErrorChat(who, down) ==
    IF who = "scheduled" /\ "telegram" \notin down THEN <<"error">> ELSE <<>>

InitSignal == InitVolume

FeedSignalTrade ==
    /\ pc = "feed"
    /\ Len(trades) < MaxTrades
    /\ \E tr \in SignalTradeSet :
          /\ Len(trades) > 0 => tr.time <= trades[Len(trades)].time
          /\ trades' = Append(trades, tr)
    /\ UNCHANGED <<pc, callVars, zoneVars, signal, classVars, cycleVars, asyncVars>>

\* lines 934-943 and 1111-1134: no trade data, the cycle throws
SignalCycleFails ==
    /\ pc = "feed"
    /\ \E down \in Outcomes, who \in Triggers :
          /\ CycleThrows(trades, down)
          /\ failed' = down
          /\ trigger' = who
          /\ chat' = ErrorChat(who, down)
    /\ signal' = [signal EXCEPT !.status = "failed"]
    /\ pc' = "cycle_done"
    /\ UNCHANGED <<trades, callVars, zoneVars, classVars, errorCount, lastUpdateTime, asyncVars>>

\* lines 945-1109, and 1111-1134 when Telegram rejects the message
SignalCycleRuns ==
    /\ pc = "feed"
    /\ \E down \in Outcomes, who \in Triggers :
          /\ ~CycleThrows(trades, down)
          /\ \E book \in CycleBooks(down) :
                LET vol24h == CycleVolume24h(down)
                IN  /\ volume24h' = vol24h
                    /\ orderBook' = book
                    /\ currentPrice' = ParsedPrice(trades[1])
                    /\ zones' = generateBuyZones(trades, book,
                                                 ParsedPrice(trades[1]), vol24h)
                    /\ IF "telegram" \in down
                       THEN /\ signal' = [Analyse(trades, vol24h)
                                             EXCEPT !.status = "failed"]
                            /\ chat' = ErrorChat(who, down)
                       ELSE /\ signal' = Analyse(trades, vol24h)
                            /\ chat' = <<"analysis">>
          /\ failed' = down
          /\ trigger' = who
    /\ pc' = "cycle_done"
    /\ UNCHANGED <<trades, callVars, classVars, errorCount, lastUpdateTime, asyncVars>>

NextSignal == FeedSignalTrade \/ SignalCycleFails \/ SignalCycleRuns

SpecSignal == InitSignal /\ [][NextSignal]_vars

(***************************************************************************)
(* Claims about the signal cycle                                           *)
(***************************************************************************)
MinTradeCount == 100    \* the minimum trade count of the reconciliation policy

\* C3: the primary timeframe has the largest absolute percentChange of the
\* four candidates, and among candidates that tie on absolute change it is
\* the first in input order (15m, 30m, 1h, 4h).
C3_PrimaryHasLargestAbsoluteChange ==
    signal.status = "sent" =>
        \A w \in Windows :
            LET d == ChangeDiff(AbsChange(signal.changes[signal.primary]),
                                AbsChange(signal.changes[w]))
            IN  d > 0 \/ (d = 0 /\ signal.primary <= w)

\* C4: for each of the four windows, whenever the actual buy value + sell
\* value is below 1% of the 24h volume, the data used for that window is
\* the estimate, not the actual figures.
C4_ImplausibleWindowUsesEstimate ==
    signal.status = "sent" =>
        \A w \in Windows :
            (signal.actual[w].totalBuyValue + signal.actual[w].totalSellValue)
                < volume24h \div 100
            => signal.source[w] = "estimated"

\* C5: whenever fewer than the minimum trade count (100) trades are
\* available, the estimates are used for every window.
C5_FewTradesUseEstimates ==
    (signal.status = "sent" /\ Len(trades) < MinTradeCount)
    => \A w \in Windows : signal.source[w] = "estimated"

\* C14: estimateVolumeDistribution called with currentPrice <= 0 fails with
\* an InvalidInput error and returns no result; it never returns a window
\* whose buy or sell quantity is NaN or Infinity.
C14_NonPositivePriceRejected ==
    signal.status = "sent" =>
        /\ currentPrice > 0
        /\ \A w \in DOMAIN signal.estimated :
              /\ signal.estimated[w].totalBuyAmount # NotFinite
              /\ signal.estimated[w].totalSellAmount # NotFinite

C19_PercentChangesFinite ==
    (/\ signal.status = "sent"
     /\ \A i \in DOMAIN trades : ValidTrade(trades[i]) /\ trades[i].price >= 0)
    => \A w \in Windows : signal.changes[w].den # 0

(***************************************************************************)
(* sendTcapySignal of src/unnamed/part_002 (lines 870-1082), an earlier    *)
(* revision of the cycle.  getPriceAtTime and generateBuyZones are the     *)
(* same there as in src/bot.js.                                            *)
(***************************************************************************)
\* part_002 lines 306-313: trades after Date.now() are skipped as well
VolumeSkips002(trade, start) ==
    IF VolumeSkips(trade, start) THEN TRUE ELSE trade.time > Now

RECURSIVE VolumeFold002(_, _, _, _)
VolumeFold002(list, start, i, acc) ==
    IF i > Len(list) THEN acc
    ELSE VolumeFold002(list, start, i + 1,
                       IF VolumeSkips002(list[i], start) THEN acc
                       ELSE VolumeAccumulate(acc, list[i]))

\* part_002 lines 289-332
calculateVolume002(list, start) ==
    IF Len(list) = 0 THEN ZeroVolume
    ELSE VolumeFold002(list, start, 1, ZeroVolume)

\* part_002 lines 901-905: fifteenMinutesAgo, thirtyMinutesAgo, oneHourAgo
\* and fourHoursAgo = now - 4 * 60 * 1000
WindowStart002(w) ==
    IF w = 1 THEN Now - 15 * 60 * 1000
    ELSE IF w = 2 THEN Now - 30 * 60 * 1000
    ELSE IF w = 3 THEN Now - 60 * 60 * 1000
    ELSE Now - 4 * 60 * 1000

\* part_002 lines 912-920
PercentChange002(list, w, cp) ==
    LET found == getPriceAtTime(list, WindowStart002(w))
        ago == IF found = NoPrice \/ found = NaNPrice \/ found = 0 THEN cp ELSE found
    IN  Change(cp - ago, ago)

\* part_002 lines 335-338, in thousandths
WindowPermille002(w, c) ==
    IF w = 1 THEN (IF ChangeAbove(c, 0) THEN 35 ELSE 30)
    ELSE IF w = 2 THEN (IF ChangeAbove(c, 0) THEN 70 ELSE 60)
    ELSE IF w = 3 THEN (IF ChangeAbove(c, 0) THEN 120 ELSE 100)
    ELSE (IF ChangeAbove(c, 0) THEN 400 ELSE 350)

\* part_002 lines 334-385
estimateVolumeDistribution002(vol24h, changes, cp) ==
    [w \in Windows |->
        LET ratio == calculateBuyRatio(changes[w])
            buy == (vol24h \div 10000) * WindowPermille002(w, changes[w]) * ratio
            sell == (vol24h \div 10000) * WindowPermille002(w, changes[w]) * (10 - ratio)
        IN  [totalSellValue  |-> sell,
             totalSellAmount |-> EstimatedAmount(sell, cp),
             totalBuyValue   |-> buy,
             totalBuyAmount  |-> EstimatedAmount(buy, cp)]]

\* part_002 lines 935-940
isVolumeConsistent(actual) ==
    /\ actual[3].totalBuyValue >= actual[2].totalBuyValue
    /\ actual[2].totalBuyValue >= actual[1].totalBuyValue
    /\ actual[3].totalSellValue >= actual[2].totalSellValue
    /\ actual[2].totalSellValue >= actual[1].totalSellValue

\* part_002 line 942
useActualVolumes(list, actual) ==
    isVolumeConsistent(actual) /\ Len(list) >= MinTradeCount

\* part_002 lines 969-970: sorted by Math.abs(b.change) - Math.abs(a.change)
PrimaryTimeframe002(changes) ==
    LET timeframes == [w \in Windows |-> [window |-> w, change |-> changes[w]]]
        cmp == [a \in Range(timeframes), b \in Range(timeframes) |->
                   ChangeDiff(AbsChange(b.change), AbsChange(a.change))]
    IN  ArraySort(timeframes, cmp)[1].window

\* part_002 lines 896-970 for a non-empty trade list with a numeric first price
Analyse002(list, vol24h) ==
    LET cp == ParsedPrice(list[1])
        changes == [w \in Windows |-> PercentChange002(list, w, cp)]
        actual == [w \in Windows |-> calculateVolume002(list, WindowStart002(w))]
        estimated == estimateVolumeDistribution002(vol24h, changes, cp)
        useActual == useActualVolumes(list, actual)
    IN  [status |-> "sent",
         changes |-> changes,
         actual |-> actual,
         source |-> [w \in Windows |-> IF useActual THEN "actual" ELSE "estimated"],
         estimated |-> estimated,
         data |-> IF useActual THEN actual ELSE estimated,
         primary |-> PrimaryTimeframe002(changes)]

(***************************************************************************)
(* Specification SpecSignal002: the feeds answer and one cycle of          *)
(* part_002's sendTcapySignal runs.                                        *)
(***************************************************************************)
InitSignal002 == InitVolume

\* part_002 lines 893-899 and 1056-1075
SignalCycle002Fails ==
    /\ pc = "feed"
    /\ \E down \in Outcomes, who \in Triggers :
          /\ CycleThrows(trades, down)
          /\ failed' = down
          /\ trigger' = who
          /\ chat' = ErrorChat(who, down)
    /\ signal' = [signal EXCEPT !.status = "failed"]
    /\ errorCount' = errorCount + 1
    /\ pc' = "cycle_done"
    /\ UNCHANGED <<trades, callVars, zoneVars, classVars, lastUpdateTime, asyncVars>>

\* part_002 lines 901-1054, and 1056-1075 when Telegram rejects the message
SignalCycle002Runs ==
    /\ pc = "feed"
    /\ \E down \in Outcomes, who \in Triggers :
          /\ ~CycleThrows(trades, down)
          /\ \E book \in CycleBooks(down) :
                LET vol24h == CycleVolume24h(down)
                IN  /\ volume24h' = vol24h
                    /\ orderBook' = book
                    /\ currentPrice' = ParsedPrice(trades[1])
                    /\ zones' = generateBuyZones(trades, book,
                                                 ParsedPrice(trades[1]), vol24h)
                    /\ IF "telegram" \in down
                       THEN /\ signal' = [Analyse002(trades, vol24h)
                                             EXCEPT !.status = "failed"]
                            /\ chat' = ErrorChat(who, down)
                            /\ errorCount' = errorCount + 1
                            /\ UNCHANGED lastUpdateTime
                       ELSE /\ signal' = Analyse002(trades, vol24h)
                            /\ chat' = <<"analysis">>
                            /\ errorCount' = 0
                            /\ lastUpdateTime' = Now
          /\ failed' = down
          /\ trigger' = who
    /\ pc' = "cycle_done"
    /\ UNCHANGED <<trades, callVars, classVars, asyncVars>>

NextSignal002 == FeedSignalTrade \/ SignalCycle002Fails \/ SignalCycle002Runs

SpecSignal002 == InitSignal002 /\ [][NextSignal002]_vars

(***************************************************************************)
(* Claims about part_002's cycle                                           *)
(***************************************************************************)
\* totals of window a are >= those of window b
CoversWindow(a, b) ==
    /\ a.totalBuyValue >= b.totalBuyValue
    /\ a.totalSellValue >= b.totalSellValue
    /\ a.totalBuyAmount >= b.totalBuyAmount
    /\ a.totalSellAmount >= b.totalSellAmount

\* C17: in every signal cycle the actual volume windows computed from the
\* same trade list are nested: a longer window's totals are >= those of
\* every strictly shorter window, 4h >= 1h >= 30m >= 15m for buy value, sell
\* value, buy quantity and sell quantity.
C17_ActualWindowsNested ==
    (pc = "cycle_done" /\ ~CycleThrows(trades, failed)) =>
        \A w \in 1..3 : CoversWindow(signal.actual[w + 1], signal.actual[w])

(***************************************************************************)
(* The /tcapy command and the automatic scheduler of src/unnamed/part_000  *)
(* (lines 815-901 and 1141-1204).  sendTcapySignal is the one of           *)
(* src/bot.js except that the primary timeframe is chosen by absolute      *)
(* change (line 1010).  Telegram is up or down for a whole cycle; the chat *)
(* holds what the last handler left in it.                                 *)
(***************************************************************************)
maxErrorCount == 5      \* signalCache.maxErrorCount
MaxFailures == 6        \* most consecutive failed scheduled cycles explored

\* part_000 lines 933-1011
Analyse000(list, vol24h) ==
    LET analysis == Analyse(list, vol24h)
    IN  [analysis EXCEPT !.primary = PrimaryTimeframe002(analysis.changes)]

\* sendTcapySignal throws: no usable trade data, or Telegram rejects the
\* analysis message (part_000 lines 934-943, 1087-1103)
CycleFailed(list, down) ==
    IF CycleThrows(list, down) THEN TRUE ELSE "telegram" \in down

\* part_000 lines 909-1134 but for the chat: sendTcapySignal(ctx)
SendTcapySignal000(who, down) ==
    /\ failed' = down
    /\ trigger' = who
    /\ IF CycleThrows(trades, down)
       THEN /\ signal' = [signal EXCEPT !.status = "failed"]
            /\ UNCHANGED zoneVars
       ELSE \E book \in CycleBooks(down) :
               LET vol24h == CycleVolume24h(down)
               IN  /\ volume24h' = vol24h
                   /\ orderBook' = book
                   /\ currentPrice' = ParsedPrice(trades[1])
                   /\ zones' = generateBuyZones(trades, book,
                                                ParsedPrice(trades[1]), vol24h)
                   /\ signal' = [Analyse000(trades, vol24h) EXCEPT
                                    !.status = IF "telegram" \in down
                                               THEN "failed" ELSE "sent"]

\* part_000 lines 860-900: the status message is deleted after a sent
\* analysis, and edited into (or replaced by) the error text after a failure
CommandChat(list, down) ==
    IF "telegram" \in down THEN <<>>
    ELSE IF CycleFailed(list, down) THEN <<"error">>
    ELSE <<"analysis">>

\* part_000 lines 1187-1199: the alert of the fifth consecutive failure
AlertChat(count, down) ==
    IF count = maxErrorCount /\ "telegram" \notin down THEN <<"alert">> ELSE <<>>

\* the trade history the exchange holds while the bot runs
ScheduleTradeLists ==
    { <<>>,
      <<Trade(Now - 60000, 20000, 300, FALSE, "none")>>,
      <<Trade(Now - 60000, 21800, 300, FALSE, "none"),
        Trade(Now - 45 * 60000, 19600, 1500, TRUE, "none")>> }

InitSchedule ==
    /\ pc = "feed"
    /\ trades \in ScheduleTradeLists
    /\ startTime = 0
    /\ volume = ZeroVolume
    /\ targetTime = 0
    /\ priceAt = NoPrice
    /\ orderBook = NullBook
    /\ currentPrice = 0
    /\ volume24h = 0
    /\ zones = <<>>
    /\ signal = NoSignal
    /\ percentChange = Change(0, 1)
    /\ buyRatio = 0
    /\ message = NoMessage
    /\ failed = {}
    /\ chat = <<>>
    /\ errorCount = 0
    /\ trigger = "none"
    /\ lastUpdateTime = 0
    /\ throttled = NoThrottle
    /\ retry = NoRetry
    /\ sched = NoSchedule

\* part_000 lines 815-848: the command arrives in another chat or topic
TcapyCommandRejected ==
    /\ \E down \in SUBSET {"telegram"} :
          /\ failed' = down
          /\ chat' = IF "telegram" \in down THEN <<>> ELSE <<"denied">>
    /\ trigger' = "command"
    /\ pc' = "rejected"
    /\ UNCHANGED <<trades, callVars, zoneVars, signal, classVars,
                   errorCount, lastUpdateTime, asyncVars>>

\* part_000 lines 815-901
TcapyCommand ==
    /\ \E down \in Outcomes :
          /\ SendTcapySignal000("command", down)
          /\ chat' = CommandChat(trades, down)
    /\ pc' = "cycle_done"
    /\ UNCHANGED <<trades, callVars, classVars, errorCount, lastUpdateTime, asyncVars>>

\* part_000 lines 1161-1204: scheduleAutomaticSignal, run by the timers of
\* startAutomaticSignals
ScheduledSignal ==
    /\ errorCount < MaxFailures
    /\ \E down \in Outcomes :
          /\ SendTcapySignal000("scheduled", down)
          /\ IF CycleFailed(trades, down)
             THEN /\ errorCount' = errorCount + 1
                  /\ chat' = ErrorChat("scheduled", down)
                                \o AlertChat(errorCount + 1, down)
                  /\ UNCHANGED lastUpdateTime
             ELSE /\ errorCount' = 0
                  /\ lastUpdateTime' = Now
                  /\ chat' = <<"analysis">>
    /\ pc' = "cycle_done"
    /\ UNCHANGED <<trades, callVars, classVars, asyncVars>>

NextSchedule == TcapyCommandRejected \/ TcapyCommand \/ ScheduledSignal

SpecSchedule == InitSchedule /\ [][NextSchedule]_vars

(***************************************************************************)
(* Claims about the command and the scheduler                              *)
(***************************************************************************)
\* the user-facing error messages among the messages of the chat
ErrorMessages(msgs) == {i \in DOMAIN msgs : msgs[i] \in {"error", "alert"}}

\* C20: every failed signal cycle is surfaced to the chat as exactly one
\* user-facing error message, never zero and never two, for cycles started
\* by /tcapy and for scheduled cycles alike, and for every number of
\* consecutive failed cycles, the 5th consecutive scheduled failure
\* included.  (Stated for the cycles during which Telegram accepts
\* messages.)
C20_OneErrorMessagePerFailedCycle ==
    (pc = "cycle_done" /\ signal.status = "failed" /\ "telegram" \notin failed)
    => Cardinality(ErrorMessages(chat)) = 1

(***************************************************************************)
(* Specification SpecRatio: calculateBuyRatio (src/bot.js 338-346) is      *)
(* applied to a percent change.  A change is a number of hundredths of a   *)
(* percent, h / 100 = 100 * h / 10000, or NaN.                             *)
(***************************************************************************)
MaxChange == 350        \* largest percent change explored, in hundredths

Percent(h) == Change(h, 10000)
NaNChange == Change(0, 0)

RatioChanges == {Percent(h) : h \in -MaxChange..MaxChange} \cup {NaNChange}

InitRatio == InitVolume

CallCalculateBuyRatio ==
    /\ pc = "feed"
    /\ \E c \in RatioChanges :
          /\ percentChange' = c
          /\ buyRatio' = calculateBuyRatio(c)
    /\ pc' = "ratio_done"
    /\ UNCHANGED <<trades, callVars, zoneVars, signal, message, cycleVars, asyncVars>>

NextRatio == CallCalculateBuyRatio

SpecRatio == InitRatio /\ [][NextRatio]_vars

(***************************************************************************)
(* Claims about calculateBuyRatio                                          *)
(***************************************************************************)
IsFinite(c) == c.den # 0

\* the change is exactly h / 100 percent
IsPercent(c, h) == IsFinite(c) /\ ChangeDiff(c, Percent(h)) = 0

\* C12: the buy ratio is a monotonic step function of the percent change
\* (c1 <= c2 implies ratio(c1) <= ratio(c2)), always lies in [0.2, 0.8], is
\* 0.5 on the neutral band around zero, above 0.5 and at most 0.8 for a
\* change of +3, below 0.5 and at least 0.2 for a change of -3.
C12_RatioMonotonicAndBounded ==
    pc = "ratio_done" =>
        /\ buyRatio >= 2 /\ buyRatio <= 8
        /\ IsFinite(percentChange) =>
              \A c \in RatioChanges :
                  (IsFinite(c) /\ ChangeDiff(percentChange, c) <= 0)
                  => buyRatio <= calculateBuyRatio(c)
        /\ (IsFinite(percentChange)
               /\ ChangeDiff(percentChange, Percent(-20)) > 0
               /\ ChangeDiff(percentChange, Percent(20)) < 0) => buyRatio = 5
        /\ IsPercent(percentChange, 300) => (buyRatio > 5 /\ buyRatio <= 8)
        /\ IsPercent(percentChange, -300) => (buyRatio < 5 /\ buyRatio >= 2)

\* the ratio was computed for a change of +1.5 percent: between two
\* breakpoints, where the ratio is neither the cap nor the neutral value
C12_Witness ==
    /\ pc = "ratio_done"
    /\ IsPercent(percentChange, 150)
    /\ buyRatio = 7

\* C13: the buy ratio is symmetric around zero: ratio(c) + ratio(-c) = 1
\* for every percent change c, also for c exactly at a breakpoint
\* (0.2, 1, 2).
C13_RatioSymmetric ==
    (pc = "ratio_done" /\ IsFinite(percentChange)) =>
        buyRatio + calculateBuyRatio(Change(-percentChange.num, percentChange.den)) = 10

(***************************************************************************)
(* generateSignalMessage (src/bot.js 577-632).  The returned text is kept  *)
(* as the tier phrase it starts with and the volume annotation appended to *)
(* it.  buySellRatio is given in tenths, totalVolume in USDT.              *)
(***************************************************************************)
\* change >= tenths / 10, change < tenths / 10, change <= tenths / 10
\* (all false for NaN)
ChangeAtLeast(c, tenths) == c.den # 0 /\ 1000 * c.num >= tenths * c.den
ChangeBelow(c, tenths) == c.den # 0 /\ 1000 * c.num < tenths * c.den
ChangeAtMost(c, tenths) == c.den # 0 /\ 1000 * c.num <= tenths * c.den

\* lines 616-629
VolumeAnnotation(ratio, total) ==
    IF ratio > 20 /\ total > 1000 THEN "EXTREMELY HIGH buy pressure"
    ELSE IF ratio > 15 /\ total > 1000 THEN "Strong buy pressure"
    ELSE IF ratio < 5 /\ total > 1000 THEN "Heavy distribution"
    ELSE IF ratio < 8 /\ total > 1000 THEN "Sellers currently in control"
    ELSE IF total > 3000 THEN "Extremely high trading activity"
    ELSE IF total > 2000 THEN "High trading volume"
    ELSE ""

\* generateSignalMessage with the tests ">= 1" and ">= 2" exchanged, so that
\* the boundaries are not evaluated in descending order
generateSignalMessageUnordered(c, ratio, total) ==
    [tier |->
        IF ChangeAtLeast(c, 200) THEN "EXTREME SURGE"
        ELSE IF ChangeAtLeast(c, 150) THEN "MASSIVE BREAKOUT"
        ELSE IF ChangeAtLeast(c, 100) THEN "STRONG BULL RALLY"
        ELSE IF ChangeAtLeast(c, 70) THEN "POWERFUL MOMENTUM"
        ELSE IF ChangeAtLeast(c, 50) THEN "STRONG UPTREND"
        ELSE IF ChangeAtLeast(c, 30) THEN "SOLID BULLISH MOVE"
        ELSE IF ChangeAtLeast(c, 10) THEN "MILD STRENGTH"
        ELSE IF ChangeAtLeast(c, 20) THEN "POSITIVE TREND"
        ELSE IF ChangeAtLeast(c, 5) THEN "GRADUAL GROWTH"
        ELSE IF ChangeAtLeast(c, 2) THEN "EARLY BULLISH SIGNS"
        ELSE IF ChangeAbove(c, -2) /\ ChangeBelow(c, 2) THEN "CONSOLIDATION PHASE"
        ELSE IF ChangeAtMost(c, -2) /\ ChangeAbove(c, -5) THEN "MINOR WEAKNESS"
        ELSE IF ChangeAtMost(c, -5) /\ ChangeAbove(c, -10) THEN "MILD CORRECTION"
        ELSE IF ChangeAtMost(c, -10) /\ ChangeAbove(c, -30) THEN "PULLBACK ZONE"
        ELSE IF ChangeAtMost(c, -30) /\ ChangeAbove(c, -70) THEN "SIGNIFICANT DECLINE"
        ELSE IF ChangeAtMost(c, -70) THEN "MAJOR CORRECTION"
        ELSE "",
     annotation |-> VolumeAnnotation(ratio, total)]

\* lines 577-632
generateSignalMessage(c, ratio, total) ==
    [tier |->
        IF ChangeAtLeast(c, 200) THEN "EXTREME SURGE"
        ELSE IF ChangeAtLeast(c, 150) THEN "MASSIVE BREAKOUT"
        ELSE IF ChangeAtLeast(c, 100) THEN "STRONG BULL RALLY"
        ELSE IF ChangeAtLeast(c, 70) THEN "POWERFUL MOMENTUM"
        ELSE IF ChangeAtLeast(c, 50) THEN "STRONG UPTREND"
        ELSE IF ChangeAtLeast(c, 30) THEN "SOLID BULLISH MOVE"
        ELSE IF ChangeAtLeast(c, 20) THEN "POSITIVE TREND"
        ELSE IF ChangeAtLeast(c, 10) THEN "MILD STRENGTH"
        ELSE IF ChangeAtLeast(c, 5) THEN "GRADUAL GROWTH"
        ELSE IF ChangeAtLeast(c, 2) THEN "EARLY BULLISH SIGNS"
        ELSE IF ChangeAbove(c, -2) /\ ChangeBelow(c, 2) THEN "CONSOLIDATION PHASE"
        ELSE IF ChangeAtMost(c, -2) /\ ChangeAbove(c, -5) THEN "MINOR WEAKNESS"
        ELSE IF ChangeAtMost(c, -5) /\ ChangeAbove(c, -10) THEN "MILD CORRECTION"
        ELSE IF ChangeAtMost(c, -10) /\ ChangeAbove(c, -30) THEN "PULLBACK ZONE"
        ELSE IF ChangeAtMost(c, -30) /\ ChangeAbove(c, -70) THEN "SIGNIFICANT DECLINE"
        ELSE IF ChangeAtMost(c, -70) THEN "MAJOR CORRECTION"
        ELSE "",
     annotation |-> VolumeAnnotation(ratio, total)]

(***************************************************************************)
(* Specification SpecMessage: generateSignalMessage is applied to a        *)
(* percent change (in hundredths of a percent, or NaN), a buy/sell ratio   *)
(* and a total volume.                                                     *)
(***************************************************************************)
MaxTierChange == 2100   \* largest percent change explored, in hundredths

MessageChanges ==
    {Percent(h) : h \in -MaxTierChange..MaxTierChange} \cup {NaNChange}

\* buySellRatio 0.4, 0.7, 1, 1.6, 2.1 and totalVolume 500 .. 3500 USDT
MessageRatios == {4, 7, 10, 16, 21}
MessageVolumes == {500, 1500, 2500, 3500}

InitMessage == InitVolume

CallGenerateSignalMessage ==
    /\ pc = "feed"
    /\ \E c \in MessageChanges, ratio \in MessageRatios, total \in MessageVolumes :
          /\ percentChange' = c
          /\ message' = generateSignalMessage(c, ratio, total)
    /\ pc' = "message_done"
    /\ UNCHANGED <<trades, callVars, zoneVars, signal, buyRatio, cycleVars, asyncVars>>

NextMessage == CallGenerateSignalMessage

SpecMessage == InitMessage /\ [][NextMessage]_vars

(***************************************************************************)
(* Claims about generateSignalMessage                                      *)
(***************************************************************************)
\* the magnitude tiers with their bands, in tenths of a percent:
\* "atLeast" lo <= c, "from" lo <= c < hi, "open" lo < c < hi,
\* "upto" lo < c <= hi, "atMost" c <= hi
Band(name, kind, lo, hi) == [tier |-> name, kind |-> kind, lo |-> lo, hi |-> hi]

TierBands ==
    { Band("EXTREME SURGE", "atLeast", 200, 200),
      Band("MASSIVE BREAKOUT", "from", 150, 200),
      Band("STRONG BULL RALLY", "from", 100, 150),
      Band("POWERFUL MOMENTUM", "from", 70, 100),
      Band("STRONG UPTREND", "from", 50, 70),
      Band("SOLID BULLISH MOVE", "from", 30, 50),
      Band("POSITIVE TREND", "from", 20, 30),
      Band("MILD STRENGTH", "from", 10, 20),
      Band("GRADUAL GROWTH", "from", 5, 10),
      Band("EARLY BULLISH SIGNS", "from", 2, 5),
      Band("CONSOLIDATION PHASE", "open", -2, 2),
      Band("MINOR WEAKNESS", "upto", -5, -2),
      Band("MILD CORRECTION", "upto", -10, -5),
      Band("PULLBACK ZONE", "upto", -30, -10),
      Band("SIGNIFICANT DECLINE", "upto", -70, -30),
      Band("MAJOR CORRECTION", "atMost", -70, -70) }

InBand(c, band) ==
    /\ IF band.kind \in {"atLeast", "from"} THEN ChangeAtLeast(c, band.lo)
       ELSE IF band.kind \in {"open", "upto"} THEN ChangeAbove(c, band.lo)
       ELSE TRUE
    /\ IF band.kind \in {"from", "open"} THEN ChangeBelow(c, band.hi)
       ELSE IF band.kind \in {"upto", "atMost"} THEN ChangeAtMost(c, band.hi)
       ELSE TRUE

\* C15: for every finite percentChange exactly one magnitude tier applies
\* (the tiers are mutually exclusive and cover all values, the first matching
\* boundary in descending order deciding), so the message starts with
\* exactly one tier phrase; for every percentChange strictly between -0.2
\* and 0.2, in particular 0.0, that tier is the consolidation tier.
C15_ExactlyOneTier ==
    (pc = "message_done" /\ IsFinite(percentChange)) =>
        /\ Cardinality({band \in TierBands : InBand(percentChange, band)}) = 1
        /\ \E band \in TierBands :
              InBand(percentChange, band) /\ message.tier = band.tier
        /\ (ChangeAbove(percentChange, -2) /\ ChangeBelow(percentChange, 2))
              => message.tier = "CONSOLIDATION PHASE"

\* the message was built for a change of exactly 0.0
C15_Witness ==
    /\ pc = "message_done"
    /\ IsPercent(percentChange, 0)
    /\ message.tier = "CONSOLIDATION PHASE"

(***************************************************************************)
(* The scheduler of the part_002 revision (lines 1088-1157): the cycles    *)
(* are started by the /tcapy command, by the 10-second timer and by the    *)
(* 2-hour interval.  sched.cycles logs, oldest first, what started each    *)
(* cycle and whether it failed.                                            *)
(***************************************************************************)
MaxCycles == 3

\* part_002 lines 870-1082 but for the chat and signalCache
SendTcapySignal002(who, down) ==
    /\ failed' = down
    /\ trigger' = who
    /\ IF CycleThrows(trades, down)
       THEN /\ signal' = [signal EXCEPT !.status = "failed"]
            /\ UNCHANGED zoneVars
       ELSE \E book \in CycleBooks(down) :
               LET vol24h == CycleVolume24h(down)
               IN  /\ volume24h' = vol24h
                   /\ orderBook' = book
                   /\ currentPrice' = ParsedPrice(trades[1])
                   /\ zones' = generateBuyZones(trades, book,
                                                ParsedPrice(trades[1]), vol24h)
                   /\ signal' = [Analyse002(trades, vol24h) EXCEPT
                                    !.status = IF "telegram" \in down
                                               THEN "failed" ELSE "sent"]

\* part_002 lines 1054-1055 and 1079: sendTcapySignal itself resets or
\* increments signalCache.errorCount, whoever called it
CountedBySignal(count, list, down) ==
    IF CycleFailed(list, down) THEN count + 1 ELSE 0

\* part_002 lines 1137 and 1143: the interval callback resets or increments
\* the count sendTcapySignal has left
CountedByInterval(count, list, down) ==
    IF CycleFailed(list, down) THEN CountedBySignal(count, list, down) + 1 ELSE 0

\* part_002 lines 1146-1155: the alert to the administrator (ADMIN_ID set)
AdminAlert(count, down) ==
    IF count >= maxErrorCount /\ "telegram" \notin down THEN <<"alert">> ELSE <<>>

Logged(s, who, list, down) ==
    [s EXCEPT !.cycles = Append(@, [trigger |-> who, failed |-> CycleFailed(list, down)])]

\* part_002 lines 779-849: /tcapy
TcapyCommand002 ==
    /\ Len(sched.cycles) < MaxCycles
    /\ \E down \in Outcomes :
          /\ SendTcapySignal002("command", down)
          /\ chat' = CommandChat(trades, down)
          /\ errorCount' = CountedBySignal(errorCount, trades, down)
          /\ lastUpdateTime' = IF CycleFailed(trades, down) THEN lastUpdateTime ELSE Now
          /\ sched' = Logged(sched, "command", trades, down)
    /\ pc' = "cycle_done"
    /\ UNCHANGED <<trades, callVars, classVars, throttled, retry>>

\* part_002 lines 1111-1120: the callback of the 10-second timer
InitialSignal002 ==
    /\ Len(sched.cycles) < MaxCycles
    /\ \A k \in DOMAIN sched.cycles : sched.cycles[k].trigger = "command"
    /\ \E down \in Outcomes :
          /\ SendTcapySignal002("scheduled", down)
          /\ chat' = IF CycleFailed(trades, down)
                     THEN ErrorChat("scheduled", down) ELSE <<"analysis">>
          /\ errorCount' = CountedBySignal(errorCount, trades, down)
          /\ lastUpdateTime' = IF CycleFailed(trades, down) THEN lastUpdateTime ELSE Now
          /\ sched' = Logged(sched, "initial", trades, down)
    /\ pc' = "cycle_done"
    /\ UNCHANGED <<trades, callVars, classVars, throttled, retry>>

\* part_002 lines 1123-1157: the callback of the 2-hour interval;
\* signalCache.isUpdating is false again when it returns
IntervalSignal002 ==
    /\ Len(sched.cycles) < MaxCycles
    /\ ~sched.isUpdating
    /\ \E down \in Outcomes :
          /\ SendTcapySignal002("scheduled", down)
          /\ chat' = IF CycleFailed(trades, down)
                     THEN ErrorChat("scheduled", down)
                            \o AdminAlert(CountedByInterval(errorCount, trades, down), down)
                     ELSE <<"analysis">>
          /\ errorCount' = CountedByInterval(errorCount, trades, down)
          /\ lastUpdateTime' = IF CycleFailed(trades, down) THEN lastUpdateTime ELSE Now
          /\ sched' = Logged(sched, "interval", trades, down)
    /\ pc' = "cycle_done"
    /\ UNCHANGED <<trades, callVars, classVars, throttled, retry>>

NextSchedule002 == TcapyCommand002 \/ InitialSignal002 \/ IntervalSignal002

SpecSchedule002 == InitSchedule /\ [][NextSchedule002]_vars

(***************************************************************************)
(* Claims about signalCache.errorCount (part_002)                          *)
(***************************************************************************)
\* the failed scheduled cycles at the end of the log, commands left out
ScheduledCycles(log) == SelectSeq(log, LAMBDA c : c.trigger # "command")

RECURSIVE ConsecutiveFailures(_)
ConsecutiveFailures(log) ==
    IF log = <<>> THEN 0
    ELSE IF ~log[Len(log)].failed THEN 0
    ELSE 1 + ConsecutiveFailures(SubSeq(log, 1, Len(log) - 1))

\* C28: signalCache.errorCount always equals the number of consecutive
\* failed scheduled cycles since the last successful cycle: each failed
\* scheduled cycle raises it by exactly 1, a success resets it to 0, and
\* command-triggered cycles do not change it; hence the admin alert is sent
\* for the first time at the 5th consecutive failed scheduled cycle and not
\* earlier.
C28_ErrorCountIsConsecutiveFailures ==
    /\ errorCount = ConsecutiveFailures(ScheduledCycles(sched.cycles))
    /\ "alert" \in Range(chat) =>
          ConsecutiveFailures(ScheduledCycles(sched.cycles)) >= maxErrorCount

(***************************************************************************)
(* throttle (lines 122-143).  throttled.now is Date.now(), lastCall and    *)
(* timeout are the closure's variables; calls lists the calls made so far  *)
(* with their arguments, invoked the invocations of func with their time.  *)
(* A timer callback runs no earlier than its due time; which of a due      *)
(* timer and a call arriving in the same millisecond runs first is left    *)
(* open.                                                                   *)
(***************************************************************************)
ThrottleDelay == 2000
MaxCalls == 3
MaxTicks == 6

ClockEnd == Now + MaxTicks * (ThrottleDelay \div 2)

Invocation(t, c) == [at |-> t.now, call |-> c, args |-> t.calls[c].args]

\* lines 125-141: one call of the returned function
ThrottledCall(t, args, delay) ==
    LET c == Len(t.calls) + 1
        timeSinceLastCall == t.now - t.lastCall
    IN  IF timeSinceLastCall >= delay
        THEN LET called == [t EXCEPT !.calls = Append(@, [args |-> args, state |-> "invoked"])]
             IN  [called EXCEPT !.lastCall = t.now,
                                !.invoked = Append(@, Invocation(called, c))]
        ELSE [t EXCEPT !.calls = Append(@, [args |-> args, state |-> "waiting"]),
                       !.timeout = [due |-> t.now + (delay - timeSinceLastCall),
                                    call |-> c]]

TimerDue(t) == t.timeout # NoTimer /\ t.now >= t.timeout.due

\* lines 135-138: the callback of setTimeout
TimerCallback(t) ==
    [t EXCEPT !.lastCall = t.now,
              !.invoked = Append(@, Invocation(t, t.timeout.call)),
              !.calls[t.timeout.call].state = "invoked",
              !.timeout = NoTimer]

ThrottleArgs == {"TCAPY", "BTC"}

InitThrottle ==
    /\ pc = "feed"
    /\ trades = <<>>
    /\ startTime = 0
    /\ volume = ZeroVolume
    /\ targetTime = 0
    /\ priceAt = NoPrice
    /\ orderBook = NullBook
    /\ currentPrice = 0
    /\ volume24h = 0
    /\ zones = <<>>
    /\ signal = NoSignal
    /\ percentChange = Change(0, 1)
    /\ buyRatio = 0
    /\ message = NoMessage
    /\ failed = {}
    /\ chat = <<>>
    /\ errorCount = 0
    /\ trigger = "none"
    /\ lastUpdateTime = 0
    /\ throttled = [NoThrottle EXCEPT !.now = Now]
    /\ retry = NoRetry
    /\ sched = NoSchedule

otherVars == <<pc, trades, callVars, zoneVars, signal, classVars, cycleVars>>

CallThrottled ==
    /\ Len(throttled.calls) < MaxCalls
    /\ throttled.now + ThrottleDelay <= ClockEnd
    /\ \E args \in ThrottleArgs :
          throttled' = ThrottledCall(throttled, args, ThrottleDelay)
    /\ UNCHANGED <<otherVars, retry, sched>>

TimeoutFires ==
    /\ TimerDue(throttled)
    /\ throttled' = TimerCallback(throttled)
    /\ UNCHANGED <<otherVars, retry, sched>>

ThrottleTick ==
    /\ ~TimerDue(throttled)
    /\ throttled.now < ClockEnd
    /\ throttled' = [throttled EXCEPT !.now = @ + ThrottleDelay \div 2]
    /\ UNCHANGED <<otherVars, retry, sched>>

NextThrottle == CallThrottled \/ TimeoutFires \/ ThrottleTick

SpecThrottle == InitThrottle /\ [][NextThrottle]_vars

\* timers fire and time passes
SpecThrottleFair ==
    SpecThrottle /\ WF_vars(TimeoutFires) /\ WF_vars(ThrottleTick)

(***************************************************************************)
(* Claims about throttle                                                   *)
(***************************************************************************)
\* C26: every call to a function returned by throttle(func, delay)
\* eventually invokes func with that call's arguments, also when further
\* calls arrive while the call is still waiting for its delay to elapse.
C26_EveryCallEventuallyInvoked ==
    \A c \in 1..MaxCalls :
        (Len(throttled.calls) >= c)
            ~> (\E k \in DOMAIN throttled.invoked :
                    /\ throttled.invoked[k].call = c
                    /\ throttled.invoked[k].args = throttled.calls[c].args)

\* C29: any two invocations of func are at least delay milliseconds apart,
\* for every sequence and timing of calls, including a call that arrives at
\* the moment a previously deferred call is due to fire.
C29_InvocationsDelayApart ==
    \A j, k \in DOMAIN throttled.invoked :
        j < k => throttled.invoked[k].at - throttled.invoked[j].at >= ThrottleDelay

(***************************************************************************)
(* withRetry (lines 146-159).  retry.i is the loop variable, attempts the  *)
(* outcome of each call of fn so far, waits the delays handed to           *)
(* setTimeout, result the value or error the returned promise settled      *)
(* with.                                                                   *)
(***************************************************************************)
MaxRetries == 4

RetryDelays == {500, 1000}
RetryValues == {"data", "empty"}
RetryErrors == {"timeout", "status 429"}

\* a plausible slip: linear instead of exponential backoff
BackoffDelayLinear(delay, i) == delay * (i + 1)

\* line 156: delay * Math.pow(2, i)
BackoffDelay(delay, i) == delay * 2^i

\* line 149: return await fn()
AfterReturn(r, value) ==
    [r EXCEPT !.attempts = Append(@, [ok |-> TRUE, value |-> value]),
              !.state = "resolved",
              !.result = value]

\* lines 150-156: fn threw
AfterThrow(r, error) ==
    LET thrown == [r EXCEPT !.attempts = Append(@, [ok |-> FALSE, value |-> error])]
    IN  IF r.i = r.retries - 1
        THEN [thrown EXCEPT !.state = "rejected", !.result = error]
        ELSE [thrown EXCEPT !.state = "waiting",
                            !.waits = Append(@, BackoffDelay(r.delay, r.i))]

\* line 147: i++ and the loop test after the backoff
AfterBackoff(r) ==
    IF r.i + 1 < r.retries
    THEN [r EXCEPT !.i = @ + 1, !.state = "calling"]
    ELSE [r EXCEPT !.i = @ + 1, !.state = "resolved", !.result = "undefined"]

CallWithRetry ==
    /\ retry.state = "idle"
    /\ \E retries \in 1..MaxRetries, delay \in RetryDelays :
          retry' = [NoRetry EXCEPT !.retries = retries, !.delay = delay,
                                   !.state = "calling"]
    /\ UNCHANGED <<otherVars, throttled, sched>>

FnReturns ==
    /\ retry.state = "calling"
    /\ \E value \in RetryValues : retry' = AfterReturn(retry, value)
    /\ UNCHANGED <<otherVars, throttled, sched>>

FnThrows ==
    /\ retry.state = "calling"
    /\ \E error \in RetryErrors : retry' = AfterThrow(retry, error)
    /\ UNCHANGED <<otherVars, throttled, sched>>

BackoffElapses ==
    /\ retry.state = "waiting"
    /\ retry' = AfterBackoff(retry)
    /\ UNCHANGED <<otherVars, throttled, sched>>

NextRetry == CallWithRetry \/ FnReturns \/ FnThrows \/ BackoffElapses

\* the start state is that of the throttle specification: nothing called yet
SpecRetry == InitThrottle /\ [][NextRetry]_vars

\* every call of fn terminates and every timer fires
SpecRetryFair ==
    SpecRetry /\ WF_vars(FnReturns \/ FnThrows) /\ WF_vars(BackoffElapses)

(***************************************************************************)
(* Claims about withRetry                                                  *)
(***************************************************************************)
RetrySettled == retry.state \in {"resolved", "rejected"}

RetryAttemptsBounded ==
    /\ Len(retry.attempts) <= retry.retries
    /\ RetrySettled => Len(retry.attempts) >= 1
    /\ \A j \in DOMAIN retry.attempts :
          j < Len(retry.attempts) => ~retry.attempts[j].ok

RetryOutcome ==
    /\ retry.state = "resolved" =>
          /\ retry.attempts[Len(retry.attempts)].ok
          /\ retry.result = retry.attempts[Len(retry.attempts)].value
    /\ retry.state = "rejected" =>
          /\ Len(retry.attempts) = retry.retries
          /\ \A j \in DOMAIN retry.attempts : ~retry.attempts[j].ok
          /\ retry.result = retry.attempts[retry.retries].value
    /\ retry.state = "calling" => retry.attempts = <<>> \/ ~retry.attempts[Len(retry.attempts)].ok

RetryWaits ==
    /\ Len(retry.waits) = IF RetrySettled
                          THEN Len(retry.attempts) - 1
                          ELSE Len(retry.attempts)
    /\ \A j \in DOMAIN retry.waits : retry.waits[j] = retry.delay * 2^(j - 1)

\* C30: withRetry(fn, retries, delay) with retries >= 1 invokes fn at least
\* once and at most retries times: it makes no further attempt after the
\* first success and returns that result, it rejects with the error of the
\* last attempt after retries consecutive failures, it waits delay * 2^i
\* between attempt i+1 and attempt i+2 (i from 0), and it terminates
\* whenever every call of fn terminates.
C30_RetryBoundedAndTerminates ==
    /\ [](RetryAttemptsBounded /\ RetryOutcome /\ RetryWaits)
    /\ (retry.state # "idle") ~> RetrySettled

C30_Witness ==
    /\ retry.state = "rejected"
    /\ retry.retries = 3
    /\ Len(retry.attempts) = 3
    /\ retry.waits = <<retry.delay, 2 * retry.delay>>

(***************************************************************************)
(* The automatic scheduler of part_000 (lines 1142-1254) together with the *)
(* throttled quote fetch its cycles share with the commands.               *)
(* throttled.now is Date.now().  sched.initial is the state of the         *)
(* one-minute setTimeout, sched.nextTimer the time the next timer of the   *)
(* scheduler is due, sched.cycles the scheduled cycles in flight, each     *)
(* with the index of its call of throttledFetchCmcData, sched.lastCheck    *)
(* what the last timer callback did.  Time passes in steps of one second   *)
(* for WindowTicks seconds after a scheduler timer (sched.epoch), then     *)
(* jumps to ThrottleDelay before the next scheduler timer; at the jump the *)
(* calls of the throttled function that no cycle in flight waits for are   *)
(* forgotten.                                                              *)
(***************************************************************************)
MaxChecks == 17
MaxCommands == 2
WindowTicks == 3

SIGNAL_INTERVAL == 14400000
CHECK_INTERVAL == 900000
InitialDelay == 60000

\* the periodic checks explored are those due up to Horizon
Horizon == Now + InitialDelay + WindowTicks * (ThrottleDelay \div 2) + MaxChecks * CHECK_INTERVAL

\* part_000 lines 1230 and 1241: a timer of the scheduler is pending
TimerArmed(s) == s.initial = "armed" \/ (s.signalTimer /\ s.nextTimer <= Horizon)

SchedulerTimerDue(s, t) == TimerArmed(s) /\ t.now >= s.nextTimer

\* the time explored around a scheduler timer: from ThrottleDelay before it
\* to WindowTicks seconds after it
BeforeTimer(s, t) == TimerArmed(s) /\ t.now >= s.nextTimer - ThrottleDelay

WindowEnd(s, t) ==
    (IF BeforeTimer(s, t) THEN s.nextTimer ELSE s.epoch)
        + WindowTicks * (ThrottleDelay \div 2)

InFlight(s) == DOMAIN s.cycles

\* a plausible slip: the guard against concurrent updates is missing
SkipsUpdateNever(s) == FALSE

\* part_000 lines 1163-1166: if (signalCache.isUpdating) return
SkipsUpdate(s) == s.isUpdating

\* part_000 lines 1161-1172 and 919-921: scheduleAutomaticSignal up to the
\* first await of sendTcapySignal, the scheduler's side
ScheduleStart(s, t) ==
    IF SkipsUpdate(s)
    THEN [s EXCEPT !.lastCheck = "skipped"]
    ELSE [s EXCEPT !.isUpdating = TRUE,
                   !.lastCheck = "started",
                   !.cycles = Append(@, [call |-> Len(t.calls) + 1,
                                         foundUpdating |-> s.isUpdating])]

\* part_000 line 921: the cycle's call of throttledFetchCmcData('TCAPY')
ScheduleFetch(s, t) ==
    IF SkipsUpdate(s) THEN t ELSE ThrottledCall(t, "TCAPY", ThrottleDelay)

\* part_000 lines 1206-1219
shouldSendSignal(now, last) == last = 0 \/ now - last >= SIGNAL_INTERVAL

\* part_000 lines 1174-1203 and 1237-1252: sendTcapySignal returned or
\* threw; the try, catch and finally blocks, and the rest of the initial
\* timer's callback when it was the caller
ScheduleEnd(s, k, ok, now) ==
    LET ended == [s EXCEPT !.isUpdating = FALSE,
                           !.cycles = SelectSeq(@, LAMBDA c : c # s.cycles[k]),
                           !.lastUpdateTime = IF ok THEN now ELSE @,
                           !.errorCount = IF ok THEN 0 ELSE @ + 1]
    IN  IF s.initial = "running"
        THEN [ended EXCEPT !.initial = "done",
                           !.signalTimer = TRUE,
                           !.nextTimer = now + CHECK_INTERVAL]
        ELSE ended

\* part_000 line 1294: startAutomaticSignals has run at start-up
InitScheduler ==
    /\ pc = "feed"
    /\ trades = <<>>
    /\ startTime = 0
    /\ volume = ZeroVolume
    /\ targetTime = 0
    /\ priceAt = NoPrice
    /\ orderBook = NullBook
    /\ currentPrice = 0
    /\ volume24h = 0
    /\ zones = <<>>
    /\ signal = NoSignal
    /\ percentChange = Change(0, 1)
    /\ buyRatio = 0
    /\ message = NoMessage
    /\ failed = {}
    /\ chat = <<>>
    /\ errorCount = 0
    /\ trigger = "none"
    /\ lastUpdateTime = 0
    /\ throttled = [NoThrottle EXCEPT !.now = Now]
    /\ retry = NoRetry
    /\ sched = [NoSchedule EXCEPT !.initial = "armed",
                                  !.nextTimer = Now + InitialDelay,
                                  !.epoch = Now]

\* nothing happens until ThrottleDelay before the next scheduler timer;
\* only the calls of the cycles in flight are kept, and lastCall, by then
\* more than ThrottleDelay ago, is kept as 0
BeforeNextTimer(t, s) ==
    [t EXCEPT !.now = s.nextTimer - ThrottleDelay,
              !.lastCall = 0,
              !.invoked = <<>>,
              !.calls = [k \in DOMAIN s.cycles |-> t.calls[s.cycles[k].call]]]

Renumbered(s) ==
    [s EXCEPT !.cycles = [k \in DOMAIN s.cycles |-> [s.cycles[k] EXCEPT !.call = k]]]

\* part_000 lines 1230-1233: the callback of the one-minute timer
InitialTimerFires ==
    /\ sched.initial = "armed"
    /\ SchedulerTimerDue(sched, throttled)
    /\ LET s == [sched EXCEPT !.initial = "running",
                              !.epoch = throttled.now,
                              !.nextTimer = -1]
       IN  /\ sched' = ScheduleStart(s, throttled)
           /\ throttled' = ScheduleFetch(s, throttled)
    /\ UNCHANGED <<otherVars, retry>>

\* part_000 lines 1241-1250: the callback of setInterval
IntervalCheck ==
    /\ sched.signalTimer
    /\ SchedulerTimerDue(sched, throttled)
    /\ LET s == [sched EXCEPT !.epoch = throttled.now,
                              !.nextTimer = @ + CHECK_INTERVAL]
       IN  IF shouldSendSignal(throttled.now, s.lastUpdateTime)
           THEN /\ sched' = ScheduleStart(s, throttled)
                /\ throttled' = ScheduleFetch(s, throttled)
           ELSE /\ sched' = [s EXCEPT !.lastCheck = "not due"]
                /\ throttled' = throttled
    /\ UNCHANGED <<otherVars, retry>>

\* the fetches of a cycle have settled and the rest of sendTcapySignal has
\* run, to success or to an error
CycleSettles ==
    /\ \E k \in InFlight(sched) :
          /\ throttled.calls[sched.cycles[k].call].state = "invoked"
          /\ \E ok \in BOOLEAN :
                sched' = ScheduleEnd(sched, k, ok, throttled.now)
    /\ UNCHANGED <<otherVars, throttled, retry>>

\* lines 699-701 and 870: /coin <symbol> or /tcapy fetches a quote
CommandFetchesQuote ==
    /\ sched.commands < MaxCommands
    /\ throttled.now + ThrottleDelay <= WindowEnd(sched, throttled)
    /\ \E args \in ThrottleArgs :
          throttled' = ThrottledCall(throttled, args, ThrottleDelay)
    /\ sched' = [sched EXCEPT !.commands = @ + 1]
    /\ UNCHANGED <<otherVars, retry>>

SchedulerTick ==
    /\ ~TimerDue(throttled)
    /\ ~SchedulerTimerDue(sched, throttled)
    /\ throttled.now < WindowEnd(sched, throttled)
    /\ throttled' = [throttled EXCEPT !.now = @ + ThrottleDelay \div 2]
    /\ UNCHANGED <<otherVars, retry, sched>>

\* the quiet time between two scheduler timers
SchedulerIdles ==
    /\ TimerArmed(sched)
    /\ ~BeforeTimer(sched, throttled)
    /\ throttled.now >= WindowEnd(sched, throttled)
    /\ throttled.timeout = NoTimer
    /\ throttled' = BeforeNextTimer(throttled, sched)
    /\ sched' = Renumbered(sched)
    /\ UNCHANGED <<otherVars, retry>>

NextScheduler ==
    \/ InitialTimerFires
    \/ IntervalCheck
    \/ CycleSettles
    \/ CommandFetchesQuote
    \/ TimeoutFires
    \/ SchedulerTick
    \/ SchedulerIdles

SpecScheduler == InitScheduler /\ [][NextScheduler]_vars

\* timers fire, time passes, and a cycle whose fetches were issued runs to
\* its end
SpecSchedulerFair ==
    /\ SpecScheduler
    /\ WF_vars(TimeoutFires)
    /\ WF_vars(SchedulerTick)
    /\ WF_vars(SchedulerIdles)
    /\ WF_vars(CycleSettles)
    /\ WF_vars(InitialTimerFires)
    /\ WF_vars(IntervalCheck)

(***************************************************************************)
(* Claims about the automatic scheduler                                    *)
(***************************************************************************)
\* C25: every scheduled signal cycle that starts eventually finishes, by
\* success or by error, so signalCache.isUpdating always eventually returns
\* to false, under every interleaving of the scheduled cycle with /coin and
\* /tcapy commands that use the same throttled quote fetch.
C25_ScheduledCycleEventuallyEnds ==
    sched.isUpdating ~> ~sched.isUpdating

\* C27: at most one scheduled signal cycle is in flight at any time;
\* signalCache.isUpdating is true exactly while a scheduled cycle is in
\* flight and false whenever none is, and a check that finds it true starts
\* no new cycle.
C27_AtMostOneCycleInFlight ==
    /\ Cardinality(InFlight(sched)) <= 1
    /\ sched.isUpdating <=> InFlight(sched) # {}
    /\ \A k \in DOMAIN sched.cycles : ~sched.cycles[k].foundUpdating

\* after failed cycles a periodic check has found a long-running cycle in
\* flight and has skipped
C27_Witness ==
    /\ sched.lastCheck = "skipped"
    /\ sched.errorCount >= 1
    /\ sched.isUpdating
    /\ Cardinality(InFlight(sched)) = 1

====
